---- MODULE Spec2Model ----
(***************************************************************************)
(* Model of the ELD trip engine: the HOS stop planner                      *)
(* (eld_modules/stop_generator.py, generate_stops) followed by the daily   *)
(* log assembler (eld_modules/eld_log_generator.py, generate_eld_logs).    *)
(*                                                                         *)
(* Units.  The code computes with float hours and datetimes.  Here every   *)
(* hour value, duration and timestamp is a whole number of 1/6000 hour     *)
(* (0.6 s): a minute is 100 units, so that the assembler's 23.99 h, 23.9 h *)
(* and its tolerances 0.001 h and 0.01 h are whole numbers.  A timestamp   *)
(* is the number of units since midnight of the calendar day of            *)
(* start_time (day 0).  Distances are in 1/100 mile; at 60 mph one unit of *)
(* distance is driven in one unit of time.  Arithmetic is exact; the one   *)
(* float effect modelled is the truncation of int((hour % 1) * 60), in     *)
(* LogMinute.                                                              *)
(*                                                                         *)
(* SpecLive is Spec with the fairness of a planner that keeps running.     *)
(* Beside the planner and the assembler (Spec, SpecLogs, SpecRerun), the   *)
(* module models, each under a specification of its own, the validation of *)
(* the request in TripELDView.post (SpecView), fetch_route with its mock   *)
(* route (SpecRoute, floats of PRECISION bits), get_location_name called   *)
(* by several callers (SpecGeocoder, time in half seconds), and the two    *)
(* clamps of the driving window called on any timestamp (SpecClamp).       *)
(***************************************************************************)
EXTENDS Integers, Sequences, FiniteSets, TLC

MINUTE == 100
HOUR == 60 * MINUTE
DAY == 24 * HOUR
MILE == 100

\* ------------------------------------------------------------------------
\* Constants of stop_generator.py (lines 20-32)
PRE_TRIP_START_HOUR == (65 * HOUR) \div 10
DRIVING_START_HOUR == 7 * HOUR
DRIVING_END_HOUR == (175 * HOUR) \div 10
SLEEPER_START_HOUR == 19 * HOUR
SLEEPER_END_HOUR == (65 * HOUR) \div 10
FUEL_STOP_INTERVAL == 500 * MILE
PICKUP_DURATION == HOUR \div 2
DROPOFF_DURATION == HOUR \div 2
WAYPOINT_DURATION == HOUR \div 2
FUEL_DURATION == HOUR \div 2
BREAK_DURATION == HOUR \div 2
PREFERRED_BREAK_HOUR == 14 * HOUR
AVG_SPEED_MPH == 60

\* The break trigger: the literal 8 of the drive loop (lines 393, 414, 492).
BREAK_TRIGGER == 8 * HOUR
\* The literal 7 of the break-after-fuel test (line 471).
BREAK_AFTER_FUEL == 7 * HOUR
OVERNIGHT_REST == 10 * HOUR

\* ------------------------------------------------------------------------
\* Bounds of the model: how many entries of each input table are explored.
NumDistances == 9
NumStartTimes == 7
NumCycles == 4
MaxLocations == 3
NumOdometers == 2

\* route["distance"], in miles * 100.  Every entry is a multiple of 1.5 miles,
\* so that legs of 2 and 3 location pairs are whole numbers of units.
DistanceTable ==
  << 0, 9 * MILE, 45 * MILE, 270 * MILE, 501 * MILE, 1002 * MILE,
     1200 * MILE, 2001 * MILE, 2799 * MILE, 603 * MILE, 1503 * MILE >>

\* start_time as time of day on day 0; the view always passes 06:00.
StartTimeTable ==
  << 6 * HOUR, 0, 6 * HOUR + 45 * MINUTE, 10 * HOUR, 17 * HOUR + 15 * MINUTE,
     18 * HOUR, 23 * HOUR + 57 * MINUTE, 12 * HOUR + 13 * MINUTE, 7 * HOUR >>

\* current_cycle_used, in hours.
CycleTable ==
  << 0, (75 * HOUR) \div 10, 3 * HOUR + 7 * MINUTE, 10 * HOUR, 8 * HOUR,
     5 * HOUR + 22 * MINUTE >>

\* starting_odometer (random.randint(100000, 500000) when not supplied).
OdometerTable == << 100000, 500000, 250000 >>

Prefix(table, n) == { table[k] : k \in 1..(IF n < Len(table) THEN n ELSE Len(table)) }

Distances == Prefix(DistanceTable, NumDistances)
StartTimes == Prefix(StartTimeTable, NumStartTimes)
Cycles == Prefix(CycleTable, NumCycles)
Odometers == Prefix(OdometerTable, NumOdometers)

\* Points of a route polyline: generate_mock_route makes 50 per leg and
\* combine_routes drops the first point of every leg after the first.
NUM_POINTS == 50
RouteLength(n) == NUM_POINTS + (n - 2) * (NUM_POINTS - 1)

VARIABLES
  \* arguments of generate_stops
  total_distance, num_locations, start_time, current_cycle_used,
  \* control
  pc,
  \* locals of generate_stops
  stops, current_timestamp, current_position, miles_since_last_fuel,
  hours_of_driving_since_last_break, days_on_road,
  i, next_position, distance_to_next, remaining_drive, segment_position,
  miles_to_next_fuel,
  \* history: the driving the planner performed, per drive <<from, to, hours,
  \* the break counter as the drive began>>; the miles really driven since the
  \* last fuel stop (or the start); the stops in the order of their emission
  drives, driven_since_fuel, emitted,
  \* generate_eld_logs
  starting_odometer, day_index, current_odometer, daily_logs,
  \* the module random: the seed given to random.seed and the number of values
  \* drawn since; the coordinates that have a file in location_cache/
  random_seed, random_draws, location_cache,
  \* history: which run of the request this is, and what the first run returned
  run, first_run,
  \* TripELDView.post: the three locations of the request and the response
  locations, response,
  \* fetch_route: its arguments, the great-circle distance of the two points,
  \* what the routing service did, and what fetch_route returned
  route_origin, route_destination, great_circle_m, osrm_outcome, route_response,
  \* get_location_name: each caller's position and what it has done, the time,
  \* the times at which requests went to the geocoder, the cache file of the key
  callers, geo_clock, request_times, cache_file,
  \* next_driving_start_time and calculate_time_restricted_arrival called on
  \* their own: the arguments and what was returned
  clamp_call

inputs == << total_distance, num_locations, start_time, current_cycle_used >>
legvars == << current_position, miles_since_last_fuel, i, next_position, distance_to_next >>
loopvars == << stops, current_timestamp, hours_of_driving_since_last_break, days_on_road,
               remaining_drive, segment_position, miles_to_next_fuel, drives,
               driven_since_fuel >>
logvars == << starting_odometer, day_index, current_odometer, daily_logs >>
envvars == << random_seed, random_draws, location_cache >>
runvars == << run, first_run >>
plannervars == << inputs, pc, legvars, loopvars, logvars, emitted, envvars, runvars >>
viewvars == << locations, response >>
routevars == << route_origin, route_destination, great_circle_m, osrm_outcome, route_response >>
geovars == << callers, geo_clock, request_times, cache_file >>
servicevars == << viewvars, routevars, geovars, clamp_call >>
vars == << plannervars, servicevars >>

\* No request is being served by the view.
NoRequest == locations = << >> /\ response = << >>
\* fetch_route is not being called.
NoRouteCall ==
  /\ route_origin = << >>
  /\ route_destination = << >>
  /\ great_circle_m = 0
  /\ osrm_outcome = "none"
  /\ route_response = << >>
\* get_location_name is not being called on its own.
NoLookup ==
  /\ callers = << >>
  /\ geo_clock = 0
  /\ request_times = << >>
  /\ cache_file = "missing"
\* The clamps are not being called on their own.
NoClampCall == clamp_call = << >>
ServicesIdle == NoRequest /\ NoRouteCall /\ NoLookup /\ NoClampCall

\* ------------------------------------------------------------------------
\* Arithmetic helpers

Max(a, b) == IF a >= b THEN a ELSE b
Min(a, b) == IF a <= b THEN a ELSE b
Abs(a) == IF a >= 0 THEN a ELSE -a

\* Python's round(x / unit): to the nearest whole, halves to the even one.
RoundHalfEven(x, unit) ==
  LET q == x \div unit
      r == x % unit
  IN  IF 2 * r < unit THEN q
      ELSE IF 2 * r > unit THEN q + 1
      ELSE IF q % 2 = 0 THEN q ELSE q + 1

\* ------------------------------------------------------------------------
\* datetime helpers

DateOf(t) == t \div DAY
\* t.hour + t.minute / 60: seconds are dropped
HourOf(t) == ((t % DAY) \div MINUTE) * MINUTE
\* t.replace(hour=int(h), minute=int((h % 1) * 60), second=0) for h on a minute
ReplaceTime(t, h) == DateOf(t) * DAY + h

\* format_duration: "<m> minutes" below one hour, else "<h.h> hours"
format_duration(hours) ==
  IF hours < HOUR
    THEN << RoundHalfEven(hours * 60, HOUR), "minutes" >>
    ELSE << RoundHalfEven(hours * 10, HOUR), "tenths of hours" >>

calculate_hours_until_end_of_driving_day(current_time) ==
  LET current_hour == HourOf(current_time)
  IN  IF current_hour >= DRIVING_END_HOUR THEN 0 ELSE DRIVING_END_HOUR - current_hour

is_within_driving_hours(timestamp) ==
  LET hour == HourOf(timestamp)
  IN  DRIVING_START_HOUR <= hour /\ hour <= DRIVING_END_HOUR

\* A clamp that lets driving begin at 17:30 sharp.
next_driving_start_time_until_half_past(timestamp) ==
  LET hour == HourOf(timestamp)
  IN  IF hour < DRIVING_START_HOUR
        THEN ReplaceTime(timestamp, DRIVING_START_HOUR)
      ELSE IF hour > DRIVING_END_HOUR
        THEN ReplaceTime(timestamp + DAY, DRIVING_START_HOUR)
      ELSE timestamp

next_driving_start_time(timestamp) ==
  LET hour == HourOf(timestamp)
  IN  IF hour < DRIVING_START_HOUR
        THEN ReplaceTime(timestamp, DRIVING_START_HOUR)
      ELSE IF hour >= DRIVING_END_HOUR
        THEN ReplaceTime(timestamp + DAY, DRIVING_START_HOUR)
      ELSE timestamp

RECURSIVE calculate_time_restricted_arrival(_, _)
calculate_time_restricted_arrival(start, driving_hours) ==
  IF driving_hours <= 0 THEN start
  ELSE
    LET current_time == next_driving_start_time(start)
        hours_until_end == calculate_hours_until_end_of_driving_day(current_time)
    IN  IF driving_hours <= hours_until_end
          THEN current_time + driving_hours
          ELSE
            LET end_of_day == ReplaceTime(current_time, DRIVING_END_HOUR)
                remaining_hours == driving_hours - hours_until_end
                next_start == ReplaceTime(end_of_day + DAY, DRIVING_START_HOUR)
            IN  calculate_time_restricted_arrival(next_start, remaining_hours)

align_break_time(break_time) ==
  LET day_start == DateOf(break_time) * DAY
      target_time == day_start + PREFERRED_BREAK_HOUR
      current_hour == HourOf(break_time)
  IN  IF current_hour > PREFERRED_BREAK_HOUR THEN break_time
      ELSE IF 12 * HOUR <= current_hour /\ current_hour < PREFERRED_BREAK_HOUR
              /\ is_within_driving_hours(target_time)
        THEN target_time
      ELSE break_time

\* route_calculator.interpolate_position(route, num / den): the index of the
\* route point returned
interpolate_position(n, num, den) ==
  LET len == RouteLength(n)
      \* percentage = max(0, min(1, percentage)); floor(percentage * len)
      index == IF num >= den THEN len
               ELSE IF num <= 0 THEN 0
               ELSE (num * len) \div den
  IN  << "route", Max(0, Min(index, len - 1)) >>

\* [locations[k]["lng"], locations[k]["lat"]]
LocationCoordinates(k) == << "location", k >>

Stop(type, name, coordinates, duration, arrival) ==
  [ type |-> type, name |-> name, coordinates |-> coordinates,
    duration |-> duration, estimatedArrival |-> arrival ]


\* distance / AVG_SPEED_MPH, and hours * AVG_SPEED_MPH
MilesToHours(miles) == (miles * (HOUR \div MILE)) \div AVG_SPEED_MPH
HoursToMiles(hours) == (hours * AVG_SPEED_MPH) \div (HOUR \div MILE)

\* ------------------------------------------------------------------------
\* The module random and location_name.py

\* The value a seeded generator hands out at a position of its stream, read
\* as random.randint(100000, 500000): the same seed and the same position
\* give the same value, the next position another one.
RandomOdometer(seed, position) == OdometerTable[((seed + position) % NumOdometers) + 1]

\* get_location_name: a cached place is answered from its file; any other
\* place first draws the fallback city (one value of the generator), asks the
\* geocoder, and stores the answer.
CacheHit(cache, coordinates) == coordinates \in cache
DrawsOfLookup(cache, coordinates) == IF CacheHit(cache, coordinates) THEN 0 ELSE 1
CacheAfterLookup(cache, coordinates) == cache \cup { coordinates }

\* ------------------------------------------------------------------------
\* generate_stops

Init ==
  /\ total_distance \in Distances
  /\ num_locations \in 2..MaxLocations
  /\ start_time \in StartTimes
  /\ current_cycle_used \in Cycles
  /\ pc = "start"
  /\ stops = << >>
  /\ current_timestamp = start_time
  /\ current_position = 0
  /\ miles_since_last_fuel = 0
  /\ hours_of_driving_since_last_break = current_cycle_used
  /\ days_on_road = 0
  /\ i = 1
  /\ next_position = 0
  /\ distance_to_next = 0
  /\ remaining_drive = 0
  /\ segment_position = 0
  /\ miles_to_next_fuel = 0
  /\ drives = << >>
  /\ driven_since_fuel = 0
  /\ emitted = << >>
  /\ starting_odometer = 0
  /\ day_index = 0
  /\ current_odometer = 0
  /\ daily_logs = << >>
  /\ random_seed \in 0..(NumOdometers - 1)
  /\ random_draws = 0
  /\ location_cache = { }
  /\ run = 1
  /\ first_run = << >>
  /\ ServicesIdle

\* Lines 263-308: the start anchor, the early-morning off-duty stop, the
\* pre-trip inspection, and the clamp to the driving window.
PlanStart ==
  /\ pc = "start"
  /\ LET origin == LocationCoordinates(0)
         hour0 == HourOf(current_timestamp)
         early == hour0 < SLEEPER_END_HOUR
         s0 == << Stop("start", "Starting Location", origin, << 0, "hours" >>,
                       current_timestamp) >>
         s1 == IF early
                 THEN Append(s0, Stop("off-duty", "Early Morning Rest (Off-Duty)", origin,
                                      format_duration(SLEEPER_END_HOUR - hour0),
                                      current_timestamp))
                 ELSE s0
         t1 == IF early THEN ReplaceTime(current_timestamp, SLEEPER_END_HOUR)
                        ELSE current_timestamp
         hour1 == HourOf(t1)
         pretrip == hour1 >= PRE_TRIP_START_HOUR /\ hour1 < DRIVING_START_HOUR
         s2 == IF pretrip
                 THEN Append(s1, Stop("pretrip", "Pre-trip Inspection", origin,
                                      format_duration(DRIVING_START_HOUR - PRE_TRIP_START_HOUR),
                                      t1))
                 ELSE s1
         t2 == IF pretrip THEN t1 + (DRIVING_START_HOUR - hour1) ELSE t1
     IN  /\ stops' = s2
         /\ current_timestamp' = next_driving_start_time(t2)
  /\ pc' = "leg"
  /\ UNCHANGED << servicevars, envvars, runvars, emitted, inputs, legvars, hours_of_driving_since_last_break, days_on_road,
                  remaining_drive, segment_position, miles_to_next_fuel, drives,
                  driven_since_fuel, logvars >>

\* The head of the per-leg loop of a planner that sets the target mileage of
\* leg i at total_distance * i / n instead of total_distance * i / (n - 1).
LegBeginOverAllLocations ==
  /\ pc = "leg"
  /\ i < num_locations
  /\ LET np == (total_distance * i) \div num_locations
         dist == np - current_position
     IN  /\ next_position' = np
         /\ distance_to_next' = dist
         /\ remaining_drive' = MilesToHours(dist)
  /\ miles_to_next_fuel' = FUEL_STOP_INTERVAL - miles_since_last_fuel
  /\ segment_position' = current_position
  /\ pc' = "drive"
  /\ UNCHANGED << servicevars, envvars, runvars, emitted, inputs, current_position, miles_since_last_fuel, i, stops,
                  current_timestamp, hours_of_driving_since_last_break, days_on_road,
                  drives, driven_since_fuel, logvars >>

\* Lines 311-323: the head of the per-leg loop.
LegBegin ==
  /\ pc = "leg"
  /\ i < num_locations
  /\ LET np == (total_distance * i) \div (num_locations - 1)
         dist == np - current_position
     IN  /\ next_position' = np
         /\ distance_to_next' = dist
         /\ remaining_drive' = MilesToHours(dist)
  /\ miles_to_next_fuel' = FUEL_STOP_INTERVAL - miles_since_last_fuel
  /\ segment_position' = current_position
  /\ pc' = "drive"
  /\ UNCHANGED << servicevars, envvars, runvars, emitted, inputs, current_position, miles_since_last_fuel, i, stops,
                  current_timestamp, hours_of_driving_since_last_break, days_on_road,
                  drives, driven_since_fuel, logvars >>

\* The state one iteration of the drive loop reads and writes.
LoopState ==
  [ stops |-> stops,
    current_timestamp |-> current_timestamp,
    hours_of_driving_since_last_break |-> hours_of_driving_since_last_break,
    days_on_road |-> days_on_road,
    remaining_drive |-> remaining_drive,
    segment_position |-> segment_position,
    miles_to_next_fuel |-> miles_to_next_fuel,
    drives |-> drives,
    driven_since_fuel |-> driven_since_fuel ]

Here(s) == interpolate_position(num_locations, s.segment_position, total_distance)

\* Lines 368-389 and 583-604: after the 10-hour rest, the early-morning
\* sleeper stop, the clamp to 07:00 and the reset of the break counter.
NextMorning(s, after_rest, coordinates, stops_so_far) ==
  LET next_day_hour == HourOf(after_rest)
      early == next_day_hour < SLEEPER_END_HOUR
      st == IF early
              THEN Append(stops_so_far,
                          Stop("overnight", "Early Morning Rest (Sleeper Berth)", coordinates,
                               format_duration(SLEEPER_END_HOUR - next_day_hour), after_rest))
              ELSE stops_so_far
      t == IF early THEN ReplaceTime(after_rest, SLEEPER_END_HOUR) ELSE after_rest
  IN  [ s EXCEPT !.stops = st,
                 !.current_timestamp = next_driving_start_time(t),
                 !.hours_of_driving_since_last_break = 0,
                 !.days_on_road = @ + 1 ]

\* Lines 329-390: the driving day is over before this iteration drives.
EndOfDay(s) ==
  LET overnight_coordinates == Here(s)
      current_hour == HourOf(s.current_timestamp)
      wait == DRIVING_END_HOUR <= current_hour /\ current_hour < SLEEPER_START_HOUR
      st1 == IF wait
               THEN Append(s.stops,
                           Stop("off-duty", "End of Driving Day", overnight_coordinates,
                                format_duration(SLEEPER_START_HOUR - current_hour),
                                s.current_timestamp))
               ELSE s.stops
      t1 == IF wait THEN ReplaceTime(s.current_timestamp, SLEEPER_START_HOUR)
                    ELSE s.current_timestamp
      st2 == Append(st1, Stop("overnight", "Required 10-Hour Rest", overnight_coordinates,
                              << 10, "hours" >>, t1))
  IN  NextMorning(s, t1 + OVERNIGHT_REST, overnight_coordinates, st2)

\* A break that leaves the hours driven since the last break as they were.
BreakNowKeepingTheHours(s, name) ==
  LET break_time == align_break_time(s.current_timestamp)
  IN  [ s EXCEPT !.stops = Append(@, Stop("rest", name, Here(s),
                                           format_duration(BREAK_DURATION), break_time)),
                 !.current_timestamp = break_time + BREAK_DURATION ]

\* Lines 393-411 and 418-436: a break before any more driving.
BreakNow(s, name) ==
  LET break_time == align_break_time(s.current_timestamp)
  IN  [ s EXCEPT !.stops = Append(@, Stop("rest", name, Here(s),
                                           format_duration(BREAK_DURATION), break_time)),
                 !.hours_of_driving_since_last_break = 0,
                 !.current_timestamp = break_time + BREAK_DURATION ]

\* A fuel stop that counts as the break: it never adds a rest and always resets
\* the hours driven since the last break.
FuelStopAsBreak(s) ==
  LET fuel_position == s.segment_position + s.miles_to_next_fuel
      fuel_coordinates == interpolate_position(num_locations, fuel_position, total_distance)
      driving_hours_to_fuel == MilesToHours(s.miles_to_next_fuel)
      fuel_arrival == calculate_time_restricted_arrival(s.current_timestamp,
                                                        driving_hours_to_fuel)
      t1 == fuel_arrival + FUEL_DURATION
      hours == s.hours_of_driving_since_last_break + driving_hours_to_fuel
      st1 == Append(s.stops, Stop("fuel", "Fuel Stop", fuel_coordinates,
                                  format_duration(FUEL_DURATION), fuel_arrival))
      break == FALSE
      break_time == align_break_time(t1)
  IN  [ s EXCEPT
          !.stops = IF break
                      THEN Append(st1, Stop("rest", "30-Minute Break", fuel_coordinates,
                                            format_duration(BREAK_DURATION), break_time))
                      ELSE st1,
          !.segment_position = fuel_position,
          !.current_timestamp = IF break THEN break_time + BREAK_DURATION ELSE t1,
          !.hours_of_driving_since_last_break = 0,
          !.miles_to_next_fuel = FUEL_STOP_INTERVAL,
          !.remaining_drive = @ - driving_hours_to_fuel,
          !.drives = Append(@, << next_driving_start_time(s.current_timestamp),
                                  fuel_arrival, driving_hours_to_fuel,
                                  s.hours_of_driving_since_last_break >>),
          !.driven_since_fuel = 0 ]

\* Lines 442-489: drive to the fuel stop, fuel, and rest if 7 hours were driven.
FuelStop(s) ==
  LET fuel_position == s.segment_position + s.miles_to_next_fuel
      fuel_coordinates == interpolate_position(num_locations, fuel_position, total_distance)
      driving_hours_to_fuel == MilesToHours(s.miles_to_next_fuel)
      fuel_arrival == calculate_time_restricted_arrival(s.current_timestamp,
                                                        driving_hours_to_fuel)
      t1 == fuel_arrival + FUEL_DURATION
      hours == s.hours_of_driving_since_last_break + driving_hours_to_fuel
      st1 == Append(s.stops, Stop("fuel", "Fuel Stop", fuel_coordinates,
                                  format_duration(FUEL_DURATION), fuel_arrival))
      break == hours >= BREAK_AFTER_FUEL
      break_time == align_break_time(t1)
  IN  [ s EXCEPT
          !.stops = IF break
                      THEN Append(st1, Stop("rest", "30-Minute Break", fuel_coordinates,
                                            format_duration(BREAK_DURATION), break_time))
                      ELSE st1,
          !.segment_position = fuel_position,
          !.current_timestamp = IF break THEN break_time + BREAK_DURATION ELSE t1,
          !.hours_of_driving_since_last_break = IF break THEN 0 ELSE hours,
          !.miles_to_next_fuel = FUEL_STOP_INTERVAL,
          !.remaining_drive = @ - driving_hours_to_fuel,
          !.drives = Append(@, << next_driving_start_time(s.current_timestamp),
                                  fuel_arrival, driving_hours_to_fuel,
                                  s.hours_of_driving_since_last_break >>),
          !.driven_since_fuel = 0 ]

\* Lines 492-528: drive until the break is due, then rest.
DriveToBreak(s, hours_until_break_needed) ==
  LET pre_break_position == s.segment_position + HoursToMiles(hours_until_break_needed)
      break_coordinates == interpolate_position(num_locations, pre_break_position,
                                                total_distance)
      pre_break_arrival == calculate_time_restricted_arrival(s.current_timestamp,
                                                             hours_until_break_needed)
      break_time == align_break_time(pre_break_arrival)
  IN  [ s EXCEPT
          !.stops = Append(@, Stop("rest", "30-Minute Break", break_coordinates,
                                   format_duration(BREAK_DURATION), break_time)),
          !.segment_position = pre_break_position,
          !.current_timestamp = break_time + BREAK_DURATION,
          !.remaining_drive = @ - hours_until_break_needed,
          !.miles_to_next_fuel = @ - HoursToMiles(hours_until_break_needed),
          !.hours_of_driving_since_last_break = 0,
          !.drives = Append(@, << next_driving_start_time(s.current_timestamp),
                                  pre_break_arrival, hours_until_break_needed,
                                  s.hours_of_driving_since_last_break >>),
          !.driven_since_fuel = @ + HoursToMiles(hours_until_break_needed) ]

\* The end of the driving day of a planner whose overnight rest begins at
\* 20:00 instead of SLEEPER_START_HOUR.
EndOfDayAfterDriveSleepingLate(s) ==
  LET overnight_coordinates == Here(s)
      off_duty_start == ReplaceTime(s.current_timestamp, DRIVING_END_HOUR)
      sleeper_time == ReplaceTime(off_duty_start, 20 * HOUR)
      st == s.stops
              \o << Stop("off-duty", "End of Driving Day", overnight_coordinates,
                         format_duration(20 * HOUR - DRIVING_END_HOUR), off_duty_start),
                    Stop("overnight", "Required 10-Hour Rest", overnight_coordinates,
                         << 10, "hours" >>, sleeper_time) >>
  IN  NextMorning(s, sleeper_time + OVERNIGHT_REST, overnight_coordinates, st)

\* Lines 541-604: the drive ended the driving day with driving left.
EndOfDayAfterDrive(s) ==
  LET overnight_coordinates == Here(s)
      off_duty_start == ReplaceTime(s.current_timestamp, DRIVING_END_HOUR)
      sleeper_time == ReplaceTime(off_duty_start, SLEEPER_START_HOUR)
      st == s.stops
              \o << Stop("off-duty", "End of Driving Day", overnight_coordinates,
                         format_duration(SLEEPER_START_HOUR - DRIVING_END_HOUR),
                         off_duty_start),
                    Stop("overnight", "Required 10-Hour Rest", overnight_coordinates,
                         << 10, "hours" >>, sleeper_time) >>
  IN  NextMorning(s, sleeper_time + OVERNIGHT_REST, overnight_coordinates, st)

\* Lines 530-604: drive as far as the window allows.
Drive(s, drivable_hours) ==
  LET arrival_time == calculate_time_restricted_arrival(s.current_timestamp, drivable_hours)
      d == [ s EXCEPT
               !.segment_position = @ + HoursToMiles(drivable_hours),
               !.current_timestamp = arrival_time,
               !.remaining_drive = @ - drivable_hours,
               !.miles_to_next_fuel = @ - HoursToMiles(drivable_hours),
               !.hours_of_driving_since_last_break = @ + drivable_hours,
               !.drives = Append(@, << next_driving_start_time(s.current_timestamp),
                                       arrival_time, drivable_hours,
                                  s.hours_of_driving_since_last_break >>),
               !.driven_since_fuel = @ + HoursToMiles(drivable_hours) ]
      hours_until_end == calculate_hours_until_end_of_driving_day(arrival_time)
  IN  IF hours_until_end <= 0 /\ d.remaining_drive > 0 THEN EndOfDayAfterDrive(d) ELSE d

\* The loop body of a planner that never rests: it drives whatever the
\* driving day allows.
LoopBodyWithoutBreaks(s) ==
  LET hours_until_end == calculate_hours_until_end_of_driving_day(s.current_timestamp)
  IN  IF hours_until_end <= 0 THEN EndOfDay(s)
      ELSE Drive(s, Min(s.remaining_drive, hours_until_end))

\* The loop body of a planner without the test of lines 393-411: the break
\* that is due is left to the branch of drivable_hours <= 0.
LoopBodyWithoutTheMandatoryBreak(s) ==
  LET hours_until_end == calculate_hours_until_end_of_driving_day(s.current_timestamp)
      hours_left_before_break == Max(0, BREAK_TRIGGER - s.hours_of_driving_since_last_break)
      drivable_hours == Min(Min(s.remaining_drive, hours_until_end), hours_left_before_break)
      drivable_miles == HoursToMiles(drivable_hours)
      need_fuel == drivable_miles >= s.miles_to_next_fuel /\ s.miles_to_next_fuel > 0
      hours_until_break_needed == BREAK_TRIGGER - s.hours_of_driving_since_last_break
  IN  IF hours_until_end <= 0 THEN EndOfDay(s)
      ELSE IF drivable_hours <= 0 THEN BreakNow(s, "30-Minute Break (Required)")
      ELSE IF need_fuel THEN FuelStop(s)
      ELSE IF s.hours_of_driving_since_last_break + drivable_hours >= BREAK_TRIGGER
              /\ hours_until_break_needed > 0
        THEN DriveToBreak(s, hours_until_break_needed)
      ELSE Drive(s, drivable_hours)

\* Lines 325-604: one iteration of `while remaining_drive > 0`.
LoopBody(s) ==
  LET hours_until_end == calculate_hours_until_end_of_driving_day(s.current_timestamp)
      hours_left_before_break == Max(0, BREAK_TRIGGER - s.hours_of_driving_since_last_break)
      drivable_hours == Min(Min(s.remaining_drive, hours_until_end), hours_left_before_break)
      drivable_miles == HoursToMiles(drivable_hours)
      need_fuel == drivable_miles >= s.miles_to_next_fuel /\ s.miles_to_next_fuel > 0
      hours_until_break_needed == BREAK_TRIGGER - s.hours_of_driving_since_last_break
  IN  IF hours_until_end <= 0 THEN EndOfDay(s)
      ELSE IF s.hours_of_driving_since_last_break >= BREAK_TRIGGER
        THEN BreakNow(s, "30-Minute Break")
      ELSE IF drivable_hours <= 0 THEN BreakNow(s, "30-Minute Break (Required)")
      ELSE IF need_fuel THEN FuelStop(s)
      ELSE IF s.hours_of_driving_since_last_break + drivable_hours >= BREAK_TRIGGER
              /\ hours_until_break_needed > 0
        THEN DriveToBreak(s, hours_until_break_needed)
      ELSE Drive(s, drivable_hours)

DriveLoopStep ==
  /\ pc = "drive"
  /\ remaining_drive > 0
  /\ LET s == LoopBody(LoopState)
     IN  /\ stops' = s.stops
         /\ current_timestamp' = s.current_timestamp
         /\ hours_of_driving_since_last_break' = s.hours_of_driving_since_last_break
         /\ days_on_road' = s.days_on_road
         /\ remaining_drive' = s.remaining_drive
         /\ segment_position' = s.segment_position
         /\ miles_to_next_fuel' = s.miles_to_next_fuel
         /\ drives' = s.drives
         /\ driven_since_fuel' = s.driven_since_fuel
  /\ UNCHANGED << servicevars, envvars, runvars, emitted, inputs, pc, legvars, logvars >>

\* Lines 606-637: the leg's terminal stop.
stop_type(k) ==
  IF k = 1 THEN "pickup" ELSE IF k = num_locations - 1 THEN "dropoff" ELSE "waypoint"

\* A stop at a location that keeps the truck for a whole day.
stop_duration_of_a_day(k) == DAY

stop_duration(k) ==
  IF k = 1 THEN PICKUP_DURATION
  ELSE IF k = num_locations - 1 THEN DROPOFF_DURATION ELSE WAYPOINT_DURATION

\* f"{stop_type.capitalize()} at {get_location_name(...)}" (the geocoder's
\* answer is not modelled)
location_name(k) ==
  IF k = 1 THEN "Pickup at X" ELSE IF k = num_locations - 1 THEN "Dropoff at X"
  ELSE "Waypoint at X"

LegEnd ==
  /\ pc = "drive"
  /\ remaining_drive <= 0
  /\ current_position' = next_position
  /\ miles_since_last_fuel' = miles_since_last_fuel + distance_to_next
  /\ stops' = Append(stops, Stop(stop_type(i), location_name(i), LocationCoordinates(i),
                                 format_duration(stop_duration(i)), current_timestamp))
  /\ current_timestamp' = current_timestamp + stop_duration(i)
  /\ i' = i + 1
  /\ pc' = "leg"
  /\ random_draws' = random_draws + DrawsOfLookup(location_cache, LocationCoordinates(i))
  /\ location_cache' = CacheAfterLookup(location_cache, LocationCoordinates(i))
  /\ UNCHANGED << servicevars, random_seed, runvars, emitted, inputs, next_position, distance_to_next,
                  hours_of_driving_since_last_break, days_on_road, remaining_drive,
                  segment_position, miles_to_next_fuel, drives, driven_since_fuel, logvars >>

\* list.sort(key=lambda x: x[key]): Python's sort is stable.
RECURSIVE InsertSorted(_, _, _)
InsertSorted(sorted, item, key) ==
  IF sorted = << >> THEN << item >>
  ELSE IF sorted[Len(sorted)][key] <= item[key]
    THEN Append(sorted, item)
  ELSE Append(InsertSorted(SubSeq(sorted, 1, Len(sorted) - 1), item, key),
              sorted[Len(sorted)])

RECURSIVE StableSort(_, _)
StableSort(list, key) ==
  IF list = << >> THEN << >>
  ELSE InsertSorted(StableSort(SubSeq(list, 1, Len(list) - 1), key), list[Len(list)], key)

\* A sort by estimatedArrival that is not stable: stops of one instant come
\* out in the reverse of their order in the list.
SortStopsUnstable(list) ==
  StableSort([ k \in 1..Len(list) |-> list[Len(list) + 1 - k] ], "estimatedArrival")

\* stops.sort(key=lambda s: s["estimatedArrival"]).  ISO strings of one
\* format order as their timestamps do.
SortStops(list) == StableSort(list, "estimatedArrival")

\* Lines 639-642.
PlanReturn ==
  /\ pc = "leg"
  /\ i >= num_locations
  /\ emitted' = stops
  /\ stops' = SortStops(stops)
  /\ pc' = "planned"
  /\ UNCHANGED << servicevars, envvars, runvars, inputs, legvars, current_timestamp, hours_of_driving_since_last_break,
                  days_on_road, remaining_drive, segment_position, miles_to_next_fuel,
                  drives, driven_since_fuel, logvars >>

\* ------------------------------------------------------------------------
\* eld_log_generator.py

\* A driving limit of 8 hours a day.
MAX_DRIVING_HOURS_OF_EIGHT == 8 * HOUR
MAX_DRIVING_HOURS == 11 * HOUR
MAX_ON_DUTY_HOURS == 14 * HOUR
\* abs(...) < 0.001 in add_duty_status and add_remark; abs(...) < 0.01 in
\* the coverage tests of generate_eld_logs
DUPLICATE_TOLERANCE == HOUR \div 1000
COVERAGE_TOLERANCE == HOUR \div 100
\* the literals 23.99 (line 268) and 23.9 (line 173)
MIDNIGHT_HOUR == (2399 * HOUR) \div 100
LATEST_DRIVING_START == (239 * HOUR) \div 10

FirstWithin(list, key, hour) ==
  LET same == { k \in 1..Len(list) : Abs(list[k][key] - hour) < DUPLICATE_TOLERANCE }
  IN  IF same = {} THEN 0 ELSE CHOOSE k \in same : \A j \in same : k <= j

\* An add_duty_status that appends without looking for the hour.
add_duty_status_appending(statuses, hour, status) ==
  Append(statuses, [hour |-> hour, status |-> status])

add_duty_status(statuses, hour, status) ==
  LET k == FirstWithin(statuses, "hour", hour)
  IN  IF k # 0 THEN [statuses EXCEPT ![k].status = status]
      ELSE Append(statuses, [hour |-> hour, status |-> status])

add_remark(remarks, hour, location) ==
  LET k == FirstWithin(remarks, "time", hour)
  IN  IF k # 0 THEN [remarks EXCEPT ![k].location = location]
      ELSE Append(remarks, [time |-> hour, location |-> location])

\* Both lists at once: every status the code adds comes with a remark.
AddBoth(g, hour, status, location) ==
  [ hourData |-> add_duty_status(g.hourData, hour, status),
    remarks |-> add_remark(g.remarks, hour, location) ]

\* Lines 54-64 and 72: the stops grouped by calendar day, days ascending.
DaySet(list) == { DateOf(list[k].estimatedArrival) : k \in 1..Len(list) }
NthDay(list, n) ==
  CHOOSE d \in DaySet(list) : Cardinality({ e \in DaySet(list) : e < d }) = n
StopsOfDay(list, d) == SelectSeq(list, LAMBDA st : DateOf(st.estimatedArrival) = d)

\* Lines 106-124: the duty status a stop type maps to.
StatusOfStop(type) ==
  IF type = "overnight" THEN "sleeper-berth"
  ELSE IF type \in { "off-duty", "rest", "start" } THEN "off-duty"
  ELSE "on-duty"

\* Lines 101-124.
RECURSIVE SeedFromStops(_, _)
SeedFromStops(day_stops, n) ==
  IF n = 0 THEN [ hourData |-> << >>, remarks |-> << >> ]
  ELSE LET stop == day_stops[n]
       IN  AddBoth(SeedFromStops(day_stops, n - 1), HourOf(stop.estimatedArrival),
                   StatusOfStop(stop.type), stop.name)

\* Lines 126-149.
EarlyMorning(g, is_first_day) ==
  LET early_morning_statuses ==
        { k \in 1..Len(g.hourData) : 0 <= g.hourData[k].hour /\ g.hourData[k].hour < SLEEPER_END_HOUR }
      midnight_covered ==
        \E k \in 1..Len(g.hourData) : Abs(g.hourData[k].hour) < COVERAGE_TOLERANCE
      status == IF is_first_day THEN "off-duty" ELSE "sleeper-berth"
  IN  IF early_morning_statuses = {} THEN AddBoth(g, 0, status, "")
      ELSE IF ~midnight_covered THEN AddBoth(g, 0, status, "")
      ELSE g

HasStatusNear(g, hour) ==
  \E k \in 1..Len(g.hourData) : Abs(g.hourData[k].hour - hour) < COVERAGE_TOLERANCE

\* Lines 151-154.
RestEnd(g) ==
  IF ~HasStatusNear(g, SLEEPER_END_HOUR)
    THEN AddBoth(g, SLEEPER_END_HOUR, "on-duty", "End of Rest Period")
    ELSE g

\* Lines 156-184.
MorningPattern(g, is_first_day, first_stop_hour) ==
  IF is_first_day /\ first_stop_hour > PRE_TRIP_START_HOUR
    THEN AddBoth(AddBoth(g, first_stop_hour, "on-duty", "Pre-trip Inspection"),
                 Min(first_stop_hour + HOUR \div 2, LATEST_DRIVING_START),
                 "driving", "Start Driving")
    ELSE AddBoth(AddBoth(g, PRE_TRIP_START_HOUR, "on-duty", "Pre-trip Inspection"),
                 DRIVING_START_HOUR, "driving", "Start Driving")

\* A second pass that puts the driver on duty at a rest and at an off-duty
\* stop.
NextStatusOnDutyAtRest(type) ==
  IF type = "overnight" THEN "sleeper-berth" ELSE "on-duty"

\* Lines 193-216: the status and the remark of a stop in the second pass.
NextStatus(type) ==
  IF type = "rest" \/ type = "off-duty" THEN "off-duty"
  ELSE IF type = "overnight" THEN "sleeper-berth"
  ELSE "on-duty"

RemarkOfStop(stop) ==
  IF stop.type = "start" THEN "Starting Location"
  ELSE IF stop.type = "pretrip" THEN "Pre-trip Inspection"
  ELSE IF stop.type = "rest" THEN "30-Minute Break"
  ELSE IF stop.type = "fuel" THEN "Fueling"
  ELSE IF stop.type = "off-duty" THEN "End of Driving Day"
  ELSE IF stop.type = "overnight" THEN "10-Hour Rest"
  ELSE stop.name

\* The driving of a gap that also counts the 30 minutes of the stop before it
\* as on-duty time.
DriveGapCountingTheStop(b, driving_start_hour, time_diff) ==
  LET miles_driven == (time_diff * 60) \div (HOUR \div MILE)
  IN  [ b EXCEPT
          !.hourData = IF b.current_status # "driving"
                         THEN add_duty_status(@, driving_start_hour, "driving")
                         ELSE @,
          !.current_status = "driving",
          !.current_odometer = @ + RoundHalfEven(miles_driven, MILE),
          !.current_position = @ + miles_driven,
          !.driving_hours = @ + time_diff,
          !.on_duty_hours = @ + time_diff + 30 * MINUTE ]

\* Lines 238-250: the driving of the gap between two stops.
DriveGap(b, driving_start_hour, time_diff) ==
  LET miles_driven == (time_diff * 60) \div (HOUR \div MILE)
  IN  [ b EXCEPT
          !.hourData = IF b.current_status # "driving"
                         THEN add_duty_status(@, driving_start_hour, "driving")
                         ELSE @,
          !.current_status = "driving",
          !.current_odometer = @ + RoundHalfEven(miles_driven, MILE),
          !.current_position = @ + miles_driven,
          !.driving_hours = @ + time_diff,
          !.on_duty_hours = @ + time_diff ]

\* Lines 188-250: one pass of the second loop over the day's stops.
StatusChange(a, day_stops, n) ==
  LET stop == day_stops[n]
      stop_time == stop.estimatedArrival
      stop_hour == HourOf(stop_time)
      next_status == NextStatus(stop.type)
      changed == next_status # a.current_status
      b == [ a EXCEPT
               !.remarks = add_remark(@, stop_hour, RemarkOfStop(stop)),
               !.hourData = IF changed THEN add_duty_status(@, stop_hour, next_status)
                                       ELSE @,
               !.current_status = IF changed THEN next_status ELSE @ ]
  IN  IF n < Len(day_stops)
        THEN
          LET next_stop == day_stops[n + 1]
              next_time == next_stop.estimatedArrival
              driving_start == stop_time + 30 * MINUTE
              time_diff == next_time - driving_start
          IN  IF next_stop.type \notin { "off-duty", "overnight" }
                 /\ stop.type \notin { "off-duty", "overnight" }
                 /\ time_diff > HOUR \div 4
                THEN DriveGap(b, HourOf(driving_start), time_diff)
                ELSE b
        ELSE b

RECURSIVE StatusChanges(_, _, _)
StatusChanges(a, day_stops, n) ==
  IF n = 0 THEN a ELSE StatusChange(StatusChanges(a, day_stops, n - 1), day_stops, n)

\* An end-of-day pattern that is applied to every sheet, an early completion
\* included.
EndOfDayPatternOnEverySheet(g, is_early_completion, is_last_day) ==
  LET g1 == IF ~HasStatusNear(g, DRIVING_END_HOUR)
              THEN AddBoth(g, DRIVING_END_HOUR, "off-duty", "End of Driving Day")
              ELSE g
      g2 == IF ~HasStatusNear(g1, SLEEPER_START_HOUR)
              THEN AddBoth(g1, SLEEPER_START_HOUR, "sleeper-berth", "10-Hour Rest")
              ELSE g1
  IN  IF ~is_last_day THEN AddBoth(g2, MIDNIGHT_HOUR, "sleeper-berth", "") ELSE g2

\* An end-of-day pattern that never bridges midnight.
EndOfDayPatternWithoutMidnight(g, is_early_completion, is_last_day) ==
  IF is_early_completion THEN g
  ELSE
    LET g1 == IF ~HasStatusNear(g, DRIVING_END_HOUR)
                THEN AddBoth(g, DRIVING_END_HOUR, "off-duty", "End of Driving Day")
                ELSE g
    IN  IF ~HasStatusNear(g1, SLEEPER_START_HOUR)
          THEN AddBoth(g1, SLEEPER_START_HOUR, "sleeper-berth", "10-Hour Rest")
          ELSE g1

\* Lines 252-269.
EndOfDayPattern(g, is_early_completion, is_last_day) ==
  IF is_early_completion THEN g
  ELSE
    LET g1 == IF ~HasStatusNear(g, DRIVING_END_HOUR)
                THEN AddBoth(g, DRIVING_END_HOUR, "off-duty", "End of Driving Day")
                ELSE g
        g2 == IF ~HasStatusNear(g1, SLEEPER_START_HOUR)
                THEN AddBoth(g1, SLEEPER_START_HOUR, "sleeper-berth", "10-Hour Rest")
                ELSE g1
    IN  IF ~is_last_day THEN AddBoth(g2, MIDNIGHT_HOUR, "sleeper-berth", "") ELSE g2

\* int((hour % 1) * 60) in generate_log_entries (lines 453, 467).  For an
\* hour H + M/60 the float product falls just below M for these M, by the
\* binade of H, and int() then gives M - 1.
TruncatedMinutes(H) ==
  IF H = 0 THEN { }
  ELSE IF H = 1 THEN
    { 1, 4, 5, 8, 9, 12, 16, 17, 20, 24, 27, 31, 32, 39, 40, 47, 54, 55 }
  ELSE IF H < 4 THEN
    { 1, 2, 3, 8, 9, 10, 11, 16, 17, 18, 19, 24, 25, 31, 32, 33, 34, 39, 40, 47, 48,
      49, 54, 55 }
  ELSE IF H < 8 THEN
    { 1, 2, 3, 4, 5, 6, 7, 16, 17, 18, 19, 20, 21, 22, 31, 32, 33, 34, 35, 36, 38, 47,
      48, 49, 50, 51, 53 }
  ELSE IF H < 16 THEN
    { 2, 4, 6, 8, 10, 12, 14, 17, 19, 21, 23, 25, 27, 29, 32, 34, 36, 38, 40, 42, 44,
      47, 49, 51, 53, 55, 57, 59 }
  ELSE
    { 1, 4, 5, 8, 9, 12, 13, 16, 19, 20, 23, 24, 27, 28, 31, 34, 35, 38, 39, 42, 43,
      46, 49, 50, 53, 54, 57, 58 }

LogMinute(hour) ==
  LET H == hour \div HOUR
      m == ((hour % HOUR) * 60) \div HOUR
      whole == ((hour % HOUR) * 60) % HOUR = 0
  IN  IF whole /\ m \in TruncatedMinutes(H) THEN m - 1 ELSE m

\* day_start.replace(hour=int(hour), minute=int((hour % 1) * 60), second=0)
LogTime(day_start, hour) ==
  DateOf(day_start) * DAY + (hour \div HOUR) * HOUR + LogMinute(hour) * MINUTE

ClockHour(t) == (t % DAY) \div HOUR

\* Lines 477-485: the remark closest to the status change, the first of equals.
ClosestRemark(remarks, hour) ==
  IF remarks = << >> THEN "Unknown Location"
  ELSE LET k == CHOOSE k \in 1..Len(remarks) :
                  /\ \A j \in 1..Len(remarks) :
                       Abs(remarks[k].time - hour) <= Abs(remarks[j].time - hour)
                  /\ \A j \in 1..(k - 1) :
                       Abs(remarks[j].time - hour) > Abs(remarks[k].time - hour)
       IN  remarks[k].location

\* Lines 446-506: the log entry of the n-th status of the sorted list.
LogEntry(sorted_statuses, remarks, day_start, day_end, n) ==
  LET current == sorted_statuses[n]
      current_hour == current.hour
      t0 == LogTime(day_start, current_hour)
      current_time == IF ClockHour(t0) < ClockHour(day_start) /\ current_hour < 12 * HOUR
                        THEN t0 + DAY ELSE t0
      next_hour == sorted_statuses[n + 1].hour
      t1 == LogTime(day_start, next_hour)
      next_time == IF n < Len(sorted_statuses)
                     THEN IF ClockHour(t1) < ClockHour(current_time) /\ next_hour < 12 * HOUR
                            THEN t1 + DAY ELSE t1
                     ELSE day_end
      time_diff == next_time - current_time
  IN  [ date |-> DateOf(day_start),
        startTime |-> current_time,
        endTime |-> next_time,
        status |-> current.status,
        location |-> ClosestRemark(remarks, current_hour),
        miles |-> IF current.status = "driving"
                    THEN RoundHalfEven((time_diff * 60) \div (HOUR \div MILE), MILE)
                    ELSE 0 ]

generate_log_entries(duty_statuses, remarks, day_start, day_end) ==
  LET sorted_statuses == StableSort(duty_statuses, "hour")
  IN  [ n \in 1..Len(sorted_statuses) |->
          LogEntry(sorted_statuses, remarks, day_start, day_end, n) ]

\* A check that flags the limits themselves: >= where the code has >.
ViolationsAtLimit(driving_hours, on_duty_hours) ==
  (IF driving_hours >= MAX_DRIVING_HOURS
     THEN << [ type |-> "driving-limit",
               description |-> << "Exceeded 11-hour driving limit",
                                  RoundHalfEven(driving_hours * 10, HOUR) >> ] >>
     ELSE << >>)
  \o
  (IF on_duty_hours >= MAX_ON_DUTY_HOURS
     THEN << [ type |-> "on-duty-limit",
               description |-> << "Exceeded 14-hour on-duty limit",
                                  RoundHalfEven(on_duty_hours * 10, HOUR) >> ] >>
     ELSE << >>)

\* Lines 297-308.
Violations(driving_hours, on_duty_hours) ==
  (IF driving_hours > MAX_DRIVING_HOURS
     THEN << [ type |-> "driving-limit",
               description |-> << "Exceeded 11-hour driving limit",
                                  RoundHalfEven(driving_hours * 10, HOUR) >> ] >>
     ELSE << >>)
  \o
  (IF on_duty_hours > MAX_ON_DUTY_HOURS
     THEN << [ type |-> "on-duty-limit",
               description |-> << "Exceeded 14-hour on-duty limit",
                                  RoundHalfEven(on_duty_hours * 10, HOUR) >> ] >>
     ELSE << >>)

\* Lines 72-314: the sheet of one day.  odometer is current_odometer as the
\* day begins.
DailyLog(list, index, odometer) ==
  LET num_days == Cardinality(DaySet(list))
      day == NthDay(list, index)
      day_stops == StopsOfDay(list, day)
      first_stop_time == day_stops[1].estimatedArrival
      is_first_day == index = 0
      is_last_day == index = num_days - 1
      last_stop == day_stops[Len(day_stops)]
      last_stop_time == last_stop.estimatedArrival
      is_early_completion ==
        is_last_day /\ HourOf(last_stop_time) < DRIVING_END_HOUR /\ last_stop.type = "dropoff"
      g1 == SeedFromStops(day_stops, Len(day_stops))
      g2 == EarlyMorning(g1, is_first_day)
      g3 == RestEnd(g2)
      g4 == MorningPattern(g3, is_first_day, HourOf(first_stop_time))
      a == StatusChanges([ hourData |-> g4.hourData, remarks |-> g4.remarks,
                           current_status |-> "driving", current_odometer |-> odometer,
                           current_position |-> 0, driving_hours |-> 0,
                           on_duty_hours |-> 0 ],
                         day_stops, Len(day_stops))
      g6 == EndOfDayPattern([ hourData |-> a.hourData, remarks |-> a.remarks ],
                            is_early_completion, is_last_day)
      duty_statuses == StableSort(g6.hourData, "hour")
      remarks == StableSort(g6.remarks, "time")
  IN  [ date |-> day,
        startTime |-> first_stop_time,
        endTime |-> last_stop_time,
        startOdometer |-> odometer,
        endOdometer |-> a.current_odometer,
        totalMiles |-> RoundHalfEven(a.current_position, MILE),
        totalHours |-> a.on_duty_hours,
        drivingHours |-> a.driving_hours,
        graphData |-> [ hourData |-> duty_statuses, remarks |-> remarks ],
        logs |-> generate_log_entries(duty_statuses, remarks, first_stop_time,
                                      last_stop_time),
        violations |-> Violations(a.driving_hours, a.on_duty_hours) ]

\* create_daily_log_sheet draws driverID, truckNumber, trailerNumber and
\* shippingDocNumber; lines 318-319 draw four values per sheet.
SHEET_DRAWS == 4
PRESENTATION_DRAWS == 4

\* Lines 76-80 and 275: the sheet's draws, then the lookups of the places of
\* the day's first and last stop.
FirstPlaceOfDay(list, index) == StopsOfDay(list, NthDay(list, index))[1].coordinates
LastPlaceOfDay(list, index) ==
  LET day_stops == StopsOfDay(list, NthDay(list, index))
  IN  day_stops[Len(day_stops)].coordinates
DrawsOfDay(cache, list, index) ==
  SHEET_DRAWS + DrawsOfLookup(cache, FirstPlaceOfDay(list, index))
  + DrawsOfLookup(CacheAfterLookup(cache, FirstPlaceOfDay(list, index)),
                  LastPlaceOfDay(list, index))
CacheAfterDay(cache, list, index) ==
  CacheAfterLookup(CacheAfterLookup(cache, FirstPlaceOfDay(list, index)),
                   LastPlaceOfDay(list, index))

\* Lines 47-69: the stops arrive, the odometer is drawn.
LogsBegin ==
  /\ pc = "planned"
  /\ starting_odometer' = RandomOdometer(random_seed, random_draws)
  /\ random_draws' = random_draws + 1
  /\ current_odometer' = starting_odometer'
  /\ day_index' = 0
  /\ daily_logs' = << >>
  /\ pc' = "logs"
  /\ UNCHANGED << servicevars, random_seed, location_cache, runvars, emitted, inputs, legvars, loopvars >>

\* A pass that begins every sheet at the starting odometer instead of the
\* odometer the day before ended with.
ProcessDayFromStartingOdometer ==
  /\ pc = "logs"
  /\ day_index < Cardinality(DaySet(stops))
  /\ LET daily_log == DailyLog(stops, day_index, starting_odometer)
     IN  /\ daily_logs' = Append(daily_logs, daily_log)
         /\ current_odometer' = daily_log.endOdometer
  /\ day_index' = day_index + 1
  /\ random_draws' = random_draws + DrawsOfDay(location_cache, stops, day_index)
  /\ location_cache' = CacheAfterDay(location_cache, stops, day_index)
  /\ UNCHANGED << servicevars, random_seed, runvars, emitted, inputs, pc, legvars, loopvars, starting_odometer >>

\* Lines 72-314: one pass of the loop over the days.
ProcessDay ==
  /\ pc = "logs"
  /\ day_index < Cardinality(DaySet(stops))
  /\ LET daily_log == DailyLog(stops, day_index, current_odometer)
     IN  /\ daily_logs' = Append(daily_logs, daily_log)
         /\ current_odometer' = daily_log.endOdometer
  /\ day_index' = day_index + 1
  /\ random_draws' = random_draws + DrawsOfDay(location_cache, stops, day_index)
  /\ location_cache' = CacheAfterDay(location_cache, stops, day_index)
  /\ UNCHANGED << servicevars, random_seed, runvars, emitted, inputs, pc, legvars, loopvars, starting_odometer >>

\* Lines 316-328: the presentation fields are added and the sheets returned.
LogsReturn ==
  /\ pc = "logs"
  /\ day_index >= Cardinality(DaySet(stops))
  /\ pc' = "done"
  /\ random_draws' = random_draws + PRESENTATION_DRAWS * Len(daily_logs)
  /\ UNCHANGED << servicevars, random_seed, location_cache, runvars, emitted, inputs, legvars, loopvars, logvars >>

Next ==
  \/ PlanStart
  \/ LegBegin
  \/ DriveLoopStep
  \/ LegEnd
  \/ PlanReturn
  \/ LogsBegin
  \/ ProcessDay
  \/ LogsReturn

Spec == Init /\ [][Next]_vars

\* generate_stops runs on: a step of the planner that can be taken is taken.
\* The fairness of DriveLoopStep and of PlanReturn is written out, WF_vars(A)
\* being []<>~ENABLED <<A>>_vars \/ []<><<A>>_vars: an iteration of the loop
\* is enabled exactly when pc = "drive" and remaining_drive > 0, the return
\* exactly when pc = "leg" and i >= num_locations, and both change the state.
SpecLive ==
  /\ Spec
  /\ WF_vars(PlanStart)
  /\ WF_vars(LegBegin)
  /\ []<>~(pc = "drive" /\ remaining_drive > 0) \/ []<><<DriveLoopStep>>_vars
  /\ WF_vars(LegEnd)
  /\ []<>~(pc = "leg" /\ i >= num_locations) \/ []<><<PlanReturn>>_vars

\* ------------------------------------------------------------------------
\* The same request served a second time (views.py serves every request with
\* the same two calls): the caller seeds the generator as before the first
\* run, the arguments are the same, and the files of location_cache/ remain.

Rerun ==
  /\ pc = "done"
  /\ run = 1
  /\ run' = 2
  /\ first_run' = [ stops |-> stops, daily_logs |-> daily_logs ]
  /\ random_draws' = 0
  /\ pc' = "start"
  /\ stops' = << >>
  /\ current_timestamp' = start_time
  /\ current_position' = 0
  /\ miles_since_last_fuel' = 0
  /\ hours_of_driving_since_last_break' = current_cycle_used
  /\ days_on_road' = 0
  /\ i' = 1
  /\ next_position' = 0
  /\ distance_to_next' = 0
  /\ remaining_drive' = 0
  /\ segment_position' = 0
  /\ miles_to_next_fuel' = 0
  /\ drives' = << >>
  /\ driven_since_fuel' = 0
  /\ emitted' = << >>
  /\ starting_odometer' = 0
  /\ day_index' = 0
  /\ current_odometer' = 0
  /\ daily_logs' = << >>
  /\ UNCHANGED << servicevars, inputs, random_seed, location_cache >>

NextRerun ==
  \/ PlanStart
  \/ LegBegin
  \/ DriveLoopStep
  \/ LegEnd
  \/ PlanReturn
  \/ LogsBegin
  \/ ProcessDay
  \/ LogsReturn
  \/ Rerun

SpecRerun == Init /\ [][NextRerun]_vars

\* ------------------------------------------------------------------------
\* generate_eld_logs on stop lists of any origin: the function takes any list
\* of stops with a type and an estimatedArrival, not only the planner's.

NumStopTimes == 5
MaxStops == 4

StopTimeTable ==
  << 7 * HOUR, 18 * HOUR + 30 * MINUTE, 21 * HOUR + 30 * MINUTE, DAY + 7 * HOUR,
     DAY + 23 * HOUR + 45 * MINUTE, 2 * DAY + 9 * HOUR + 20 * MINUTE, 2 * DAY + 15 * HOUR >>
StopTimes == Prefix(StopTimeTable, NumStopTimes)
StopTypes == { "pickup", "fuel", "off-duty" }

\* The lists of n stops in ascending order of arrival.
StopLists(n) ==
  { [ k \in 1..n |-> Stop(types[k], types[k], << "route", 0 >>,
                          format_duration(HOUR \div 2), StopTimeTable[times[k]]) ] :
      times \in { t \in [1..n -> 1..NumStopTimes] : \A k \in 1..(n - 1) : t[k] < t[k + 1] },
      types \in [1..n -> StopTypes] }

InitLogs ==
  /\ \E n \in 2..MaxStops : stops \in StopLists(n)
  /\ emitted = stops
  /\ pc = "planned"
  /\ total_distance = 0
  /\ num_locations = 2
  /\ start_time = 0
  /\ current_cycle_used = 0
  /\ current_timestamp = 0
  /\ current_position = 0
  /\ miles_since_last_fuel = 0
  /\ hours_of_driving_since_last_break = 0
  /\ days_on_road = 0
  /\ i = 1
  /\ next_position = 0
  /\ distance_to_next = 0
  /\ remaining_drive = 0
  /\ segment_position = 0
  /\ miles_to_next_fuel = 0
  /\ drives = << >>
  /\ driven_since_fuel = 0
  /\ starting_odometer = 0
  /\ day_index = 0
  /\ current_odometer = 0
  /\ daily_logs = << >>
  /\ random_seed \in 0..(NumOdometers - 1)
  /\ random_draws = 0
  /\ location_cache = { }
  /\ run = 1
  /\ first_run = << >>
  /\ ServicesIdle

NextLogs ==
  \/ LogsBegin
  \/ ProcessDay
  \/ LogsReturn

SpecLogs == InitLogs /\ [][NextLogs]_vars

\* ------------------------------------------------------------------------
\* The planner and the assembler at rest, while another component is examined
\* on its own.

PlannerIdle ==
  /\ pc = "idle"
  /\ total_distance = 0
  /\ num_locations = 2
  /\ start_time = 0
  /\ current_cycle_used = 0
  /\ stops = << >>
  /\ emitted = << >>
  /\ current_timestamp = 0
  /\ current_position = 0
  /\ miles_since_last_fuel = 0
  /\ hours_of_driving_since_last_break = 0
  /\ days_on_road = 0
  /\ i = 1
  /\ next_position = 0
  /\ distance_to_next = 0
  /\ remaining_drive = 0
  /\ segment_position = 0
  /\ miles_to_next_fuel = 0
  /\ drives = << >>
  /\ driven_since_fuel = 0
  /\ starting_odometer = 0
  /\ day_index = 0
  /\ current_odometer = 0
  /\ daily_logs = << >>
  /\ random_seed = 0
  /\ random_draws = 0
  /\ location_cache = { }
  /\ run = 1
  /\ first_run = << >>

\* ------------------------------------------------------------------------
\* trip/views.py, TripELDView.post: the validation of the request

\* A JSON value of the request: null (or a missing key, which .get turns into
\* None) or a number.
JsonNull == [ kind |-> "null", value |-> 0 ]
JsonNumber(v) == [ kind |-> "number", value |-> v ]
CoordinateValues == { JsonNull, JsonNumber(0), JsonNumber(34), JsonNumber(-118) }

\* Python's `not x`: None and zero are false.
Not(x) == x.kind = "null" \/ x.value = 0

HTTP_400_BAD_REQUEST == 400
HTTP_200_OK == 200

\* Lines 41-47: the loop over the three locations.
InvalidLocation(location) == Not(location.lat) \/ Not(location.lng)

InitView ==
  /\ locations \in [ 1..3 -> [ lat : CoordinateValues, lng : CoordinateValues ] ]
  /\ response = << >>
  /\ PlannerIdle
  /\ NoRouteCall
  /\ NoLookup
  /\ NoClampCall

\* Lines 20-74: the error response when a location is invalid, else the route
\* is calculated, the stops planned, the sheets made and returned.
post ==
  /\ locations # << >>
  /\ response = << >>
  /\ response' =
       IF \E k \in 1..3 : InvalidLocation(locations[k])
         THEN [ status |-> HTTP_400_BAD_REQUEST, data |-> "error" ]
         ELSE [ status |-> HTTP_200_OK, data |-> "eld_data" ]
  /\ UNCHANGED << plannervars, locations, routevars, geovars, clamp_call >>

NextView == post

SpecView == InitView /\ [][NextView]_vars

\* ------------------------------------------------------------------------
\* route_calculator.py, fetch_route and generate_mock_route

\* Python's float, with PRECISION bits of mantissa where a double has 53: a
\* value is a whole number of units, and a result that needs more bits is
\* rounded to the nearest value that fits, halves to the even one.
PRECISION == 3

RECURSIVE UlpOf(_, _)
UlpOf(magnitude, ulp) ==
  IF magnitude < (2 ^ PRECISION) * ulp THEN ulp ELSE UlpOf(magnitude, 2 * ulp)

FloatRound(x) ==
  LET ulp == UlpOf(Abs(x), 1)
      rounded == RoundHalfEven(Abs(x), ulp) * ulp
  IN  IF x >= 0 THEN rounded ELSE -rounded

FloatSub(a, b) == FloatRound(a - b)
FloatAdd(a, b) == FloatRound(a + b)

\* Locations whose latitudes and longitudes are floats of this precision.
Locations ==
  LET values == { -((2 ^ PRECISION) - 2), 3, 5, 7 }
  IN  [ lat : values, lng : values ]

\* The Haversine distance of two points, in metres: some value that is not
\* negative, and 0 for one and the same point.
GreatCircles == { 0, 99, 100, 250000 }

\* What requests.get and response.json can do: raise (no connection, timeout,
\* a body that is not JSON), or give a body without code Ok, with no routes,
\* without the routes key, or a body with code Ok and one or two routes.
Failures ==
  { "transport error", "timeout", "malformed body", "code not Ok", "empty routes",
    "no routes key" }
Outcomes == Failures \cup { "one route", "two routes" }

\* The body the service answers with when it finds routes.
ServiceData(outcome) ==
  LET found == [ distance |-> 15000, duration |-> 900, coordinates |-> << >> ]
  IN  [ code |-> "Ok",
        routes |-> IF outcome = "one route" THEN << found >> ELSE << found, found >> ]

\* Lines 79-104: point index of num_points.  progress is 0 for the first point
\* and 1 for the last, so that these are lat1 + lat_diff * 0 and
\* lat1 + lat_diff * 1; the points between are interpolated, and those with
\* 0.1 < progress < 0.9 moved by random.uniform: their values are not
\* modelled.
MockPoint(from, to, index, num_points) ==
  LET lat_diff == FloatSub(to.lat, from.lat)
      lng_diff == FloatSub(to.lng, from.lng)
  IN  IF index = 0 THEN << from.lng, from.lat >>
      ELSE IF index = num_points - 1
        THEN << FloatAdd(from.lng, lng_diff), FloatAdd(from.lat, lat_diff) >>
      ELSE IF 10 * index > num_points - 1 /\ 10 * index < 9 * (num_points - 1)
        THEN << "jittered", index >>
      ELSE << "interpolated", index >>

\* Lines 50-120.  distance_km < 0.1 is raised to 0.1; the driving distance is
\* 1.3 times the distance, the duration that of 80 km/h, in seconds
\* (1.3 / 80000 * 3600 = 117 / 2000 seconds a metre).
generate_mock_route(from, to, distance_m) ==
  LET clamped == IF distance_m < 100 THEN 100 ELSE distance_m
  IN  [ code |-> "Ok",
        routes |-> << [ distance |-> (clamped * 13) \div 10,
                        duration |-> (clamped * 117) \div 2000,
                        coordinates |-> [ k \in 1..NUM_POINTS |->
                                            MockPoint(from, to, k - 1, NUM_POINTS) ] ] >> ]

InitRoute ==
  /\ route_origin \in Locations
  /\ route_destination \in Locations
  /\ great_circle_m \in IF route_origin = route_destination THEN { 0 } ELSE GreatCircles
  /\ osrm_outcome = "none"
  /\ route_response = << >>
  /\ PlannerIdle
  /\ NoRequest
  /\ NoLookup
  /\ NoClampCall

\* Lines 17-48.
fetch_route ==
  /\ route_origin # << >>
  /\ osrm_outcome = "none"
  /\ \E outcome \in Outcomes :
       /\ osrm_outcome' = outcome
       /\ route_response' =
            IF outcome \in Failures
              THEN generate_mock_route(route_origin, route_destination, great_circle_m)
              ELSE ServiceData(outcome)
  /\ UNCHANGED << plannervars, viewvars, geovars, clamp_call, route_origin, route_destination,
                  great_circle_m >>

NextRoute == fetch_route

SpecRoute == InitRoute /\ [][NextRoute]_vars

\* ------------------------------------------------------------------------
\* location_name.py, get_location_name called NumCallers times for the
\* coordinates of one cache key, by one handler one call after the other or by
\* handlers that run at the same time: a call may begin at any time, before
\* or after another has returned

NumCallers == 2
Callers == 1..NumCallers

\* Time in half seconds, up to MaxClock.
SECOND == 2
MaxClock == 2

\* The cache file of the key: not there, holding a name, there but not to be
\* opened, holding something that json.load or .get raises on, or opened for
\* writing by a caller that has not written the name yet.
CacheFileStates == { "missing", "readable", "unreadable", "corrupt", "half-written" }
\* A cache file that holds the city drawn at line 55 is "random city".
HoldsAName == { "readable", "random city" }

\* What the geocoder does with a request: the request or response.json()
\* raises; the answer has an address or a display_name to make a name of; or
\* it has neither (as {"error": "Unable to geocode"}, the answer for a point
\* at sea).
Answers == { "raised", "named", "nameless" }

NotCalled ==
  [ pc |-> "idle", read |-> "none", requested |-> FALSE, write |-> "none",
    name |-> "none", raised |-> FALSE, wake |-> 0, random_city |-> FALSE ]

InitGeocoder ==
  /\ callers = [ c \in Callers |-> NotCalled ]
  /\ geo_clock = 0
  /\ request_times = << >>
  /\ cache_file \in CacheFileStates
  /\ PlannerIdle
  /\ NoRequest
  /\ NoRouteCall
  /\ NoClampCall

\* Lines 45-52: a file that opens and holds a name is returned at once; a file
\* that is not there, or the reading of which raises, leads on to the request.
check_cache(c) ==
  /\ callers[c].pc = "idle"
  /\ callers' = [ callers EXCEPT ![c] =
       IF cache_file \in HoldsAName
         THEN [ @ EXCEPT !.pc = "returned", !.read = "hit", !.name = "cached",
                         !.random_city = cache_file = "random city" ]
         ELSE [ @ EXCEPT !.pc = "request",
                         !.read = IF cache_file = "missing" THEN "missing" ELSE "failed" ] ]
  /\ UNCHANGED << plannervars, viewvars, routevars, clamp_call, geo_clock, request_times, cache_file >>

\* Line 64: requests.get.
issue_request(c) ==
  /\ callers[c].pc = "request"
  /\ callers' = [ callers EXCEPT ![c] = [ @ EXCEPT !.pc = "waiting", !.requested = TRUE ] ]
  /\ request_times' = Append(request_times, geo_clock)
  /\ UNCHANGED << plannervars, viewvars, routevars, clamp_call, geo_clock, cache_file >>

\* Lines 64-102 and 110-118: the request or the decoding of its answer raises,
\* and the fallback name is returned after the delay; or location_name is made
\* of the answer (of the fallback city when the answer has neither an address
\* nor a display_name, lines 96 and 98) and the cache file opened for writing,
\* which empties it, or fails.
respond(c) ==
  /\ callers[c].pc = "waiting"
  /\ \E answer \in Answers, opened \in BOOLEAN :
       IF answer = "raised"
         THEN /\ callers' = [ callers EXCEPT ![c] =
                     [ @ EXCEPT !.pc = "sleeping", !.name = "fallback",
                                !.random_city = TRUE,
                                !.wake = geo_clock + SECOND ] ]
              /\ UNCHANGED cache_file
       ELSE IF opened
         THEN /\ callers' = [ callers EXCEPT ![c] =
                     [ @ EXCEPT !.pc = "writing", !.name = "looked up",
                                !.random_city = answer = "nameless" ] ]
              /\ cache_file' = "half-written"
       ELSE /\ callers' = [ callers EXCEPT ![c] =
                   [ @ EXCEPT !.pc = "sleeping", !.name = "looked up", !.write = "failed",
                              !.random_city = answer = "nameless",
                              !.wake = geo_clock + SECOND ] ]
            /\ UNCHANGED cache_file
  /\ UNCHANGED << plannervars, viewvars, routevars, clamp_call, geo_clock, request_times >>

\* write_cache with a failure of json.dump taken for a failure of the lookup.
write_cache_losing_the_name(c) ==
  /\ callers[c].pc = "writing"
  /\ \E written \in BOOLEAN :
       /\ callers' = [ callers EXCEPT ![c] =
            [ @ EXCEPT !.pc = "sleeping", !.wake = geo_clock + SECOND,
                       !.write = IF written THEN "done" ELSE "failed",
                       !.name = IF written THEN @ ELSE "fallback" ] ]
       /\ cache_file' = IF ~written THEN cache_file
                        ELSE IF callers[c].random_city THEN "random city" ELSE "readable"
  /\ UNCHANGED << plannervars, viewvars, routevars, clamp_call, geo_clock, request_times >>

\* Lines 103-108 and 115-118: json.dump writes the name, or raises and leaves
\* the file as it is; the name is returned after the delay.
write_cache(c) ==
  /\ callers[c].pc = "writing"
  /\ \E written \in BOOLEAN :
       /\ callers' = [ callers EXCEPT ![c] =
            [ @ EXCEPT !.pc = "sleeping", !.wake = geo_clock + SECOND,
                       !.write = IF written THEN "done" ELSE "failed" ] ]
       /\ cache_file' = IF ~written THEN cache_file
                        ELSE IF callers[c].random_city THEN "random city" ELSE "readable"
  /\ UNCHANGED << plannervars, viewvars, routevars, clamp_call, geo_clock, request_times >>

\* Line 118: time.sleep(1) is over, the function returns.
sleep_over(c) ==
  /\ callers[c].pc = "sleeping"
  /\ geo_clock >= callers[c].wake
  /\ callers' = [ callers EXCEPT ![c] = [ @ EXCEPT !.pc = "returned" ] ]
  /\ UNCHANGED << plannervars, viewvars, routevars, clamp_call, geo_clock, request_times, cache_file >>

\* Time passes.
tick ==
  /\ callers # << >>
  /\ geo_clock < MaxClock
  /\ geo_clock' = geo_clock + 1
  /\ UNCHANGED << plannervars, viewvars, routevars, clamp_call, callers, request_times, cache_file >>

NextGeocoder ==
  \/ \E c \in Callers : check_cache(c)
  \/ \E c \in Callers : issue_request(c)
  \/ \E c \in Callers : respond(c)
  \/ \E c \in Callers : write_cache(c)
  \/ \E c \in Callers : sleep_over(c)
  \/ tick

SpecGeocoder == InitGeocoder /\ [][NextGeocoder]_vars

\* ------------------------------------------------------------------------
\* stop_generator.py, next_driving_start_time and
\* calculate_time_restricted_arrival called on any timestamp and any number of
\* hours

NumClampTimes == 12
NumClampHours == 10

\* Timestamps of two days, with and without seconds, and hours of driving,
\* none, negative, and up to more than two driving days.
ClampArguments ==
  [ timestamp :
      Prefix(<< 0, 6 * HOUR + 59 * MINUTE + MINUTE \div 2, 7 * HOUR,
                7 * HOUR + MINUTE \div 2, 9 * HOUR + 42 * MINUTE + MINUTE \div 2, 12 * HOUR,
                17 * HOUR + 29 * MINUTE, 17 * HOUR + 29 * MINUTE + MINUTE \div 2,
                17 * HOUR + 30 * MINUTE, 17 * HOUR + 30 * MINUTE + MINUTE \div 2,
                DAY - MINUTE \div 2, DAY + 16 * HOUR + 3 * MINUTE + 7, DAY + 3 * HOUR >>,
             NumClampTimes),
    driving_hours :
      Prefix(<< -HOUR, 0, 1, MINUTE \div 2, MINUTE, HOUR \div 2, 8 * HOUR,
                (21 * HOUR) \div 2, (21 * HOUR) \div 2 + MINUTE, 25 * HOUR, 21 * HOUR >>,
             NumClampHours) ]

InitClamp ==
  /\ \E arguments \in ClampArguments :
       clamp_call = [ timestamp |-> arguments.timestamp,
                      driving_hours |-> arguments.driving_hours,
                      returned |-> "nothing", start |-> 0, again |-> 0, arrival |-> 0 ]
  /\ PlannerIdle
  /\ NoRequest
  /\ NoRouteCall
  /\ NoLookup

\* next_driving_start_time(timestamp), and the same applied to what it returned.
call_next_driving_start_time ==
  /\ clamp_call # << >>
  /\ clamp_call.returned = "nothing"
  /\ clamp_call' =
       [ clamp_call EXCEPT
           !.returned = "next_driving_start_time",
           !.start = next_driving_start_time(clamp_call.timestamp),
           !.again = next_driving_start_time(next_driving_start_time(clamp_call.timestamp)) ]
  /\ UNCHANGED << plannervars, viewvars, routevars, geovars >>

\* calculate_time_restricted_arrival(timestamp, driving_hours).
call_calculate_time_restricted_arrival ==
  /\ clamp_call # << >>
  /\ clamp_call.returned = "nothing"
  /\ clamp_call' =
       [ clamp_call EXCEPT
           !.returned = "calculate_time_restricted_arrival",
           !.start = next_driving_start_time(clamp_call.timestamp),
           !.arrival = calculate_time_restricted_arrival(clamp_call.timestamp,
                                                         clamp_call.driving_hours) ]
  /\ UNCHANGED << plannervars, viewvars, routevars, geovars >>

NextClamp ==
  \/ call_next_driving_start_time
  \/ call_calculate_time_restricted_arrival

SpecClamp == InitClamp /\ [][NextClamp]_vars

\* ------------------------------------------------------------------------
\* Properties of the planner

TimeOfDay(t) == t % DAY
Returned == pc \in { "planned", "logs", "done" }
Planning == pc \in { "drive", "leg" }

\* C1 (fuel cadence).  The miles driven since the last fuel stop, or since
\* the start, never exceed FUEL_STOP_INTERVAL by more than one drive segment,
\* and the planner's countdown to the next fuel stop is the interval less
\* the miles driven since the last fuel stop: it restarts at every fuel
\* stop and is carried across the leg boundaries.
FuelTolerance == HoursToMiles(BREAK_TRIGGER)
C1_FuelCadence ==
  /\ driven_since_fuel <= FUEL_STOP_INTERVAL + FuelTolerance
  /\ pc = "drive" => miles_to_next_fuel = FUEL_STOP_INTERVAL - driven_since_fuel

\* Every rest or overnight stop of the list lasts half an hour at least: the
\* stop emitted after it, or the clock when none is, is that much later.
RestsLast(list, now) ==
  \A k \in 1..Len(list) :
    list[k].type \in { "rest", "overnight" } =>
      IF k < Len(list)
        THEN list[k + 1].estimatedArrival >= list[k].estimatedArrival + 30 * MINUTE
        ELSE now >= list[k].estimatedArrival + 30 * MINUTE

DrivesWithinBreakTrigger ==
  \A k \in 1..Len(drives) :
    drives[k][4] < BREAK_TRIGGER /\ drives[k][4] + drives[k][3] <= BREAK_TRIGGER

NoRestYet == drives = << >> /\ \A k \in 1..Len(stops) : stops[k].type # "rest"

\* C2 (break cadence, as it holds).  In the drive loop the hours driven since
\* the last rest exceed BREAK_TRIGGER only while they are still the
\* cycleUsed the planner was given, before any driving and any rest; no
\* drive begins at 8 hours or more nor carries the counter past 8; every
\* rest lasts half an hour at least.
C2_BreakCadence ==
  /\ pc = "drive" =>
       \/ hours_of_driving_since_last_break <= BREAK_TRIGGER
       \/ hours_of_driving_since_last_break = current_cycle_used /\ NoRestYet
  /\ DrivesWithinBreakTrigger
  /\ Planning => RestsLast(stops, current_timestamp)

\* C2 as the specification states it: the hours driven since the last rest
\* never exceed BREAK_TRIGGER at any point of the drive loop.
C2_BreakCadence_AsStated ==
  /\ pc = "drive" => hours_of_driving_since_last_break <= BREAK_TRIGGER
  /\ DrivesWithinBreakTrigger
  /\ Planning => RestsLast(stops, current_timestamp)

\* A plan for a driver arriving with more than 8 hours used, who rested at
\* once, then drove a full 8 hours to the next rest.
C2_Witness ==
  /\ Returned
  /\ current_cycle_used > BREAK_TRIGGER
  /\ \E k \in 1..Len(drives) : drives[k][4] + drives[k][3] = BREAK_TRIGGER
  /\ \E k \in 1..Len(stops) : stops[k].type = "rest"

RECURSIVE DrivenOn(_, _)
DrivenOn(day, n) ==
  IF n = 0 THEN 0
  ELSE DrivenOn(day, n - 1) + (IF DateOf(drives[n][1]) = day THEN drives[n][3] ELSE 0)

DailyDrivingWithinLimit ==
  \A k \in 1..Len(drives) :
    DrivenOn(DateOf(drives[k][1]), Len(drives)) <= MAX_DRIVING_HOURS

\* C3 (daily driving limit).  Every drive of the planner begins at or after
\* 07:00 and ends at or before 17:30 of the day it began, so the drives of
\* one calendar day sum to MAX_DRIVING_HOURS at most.
C3_DailyDrivingLimit ==
  /\ \A k \in 1..Len(drives) :
       /\ TimeOfDay(drives[k][1]) >= DRIVING_START_HOUR
       /\ TimeOfDay(drives[k][2]) <= DRIVING_END_HOUR
       /\ DateOf(drives[k][1]) = DateOf(drives[k][2])
  /\ DailyDrivingWithinLimit

\* The stop before stops[k] is of the same calendar day and has ended when
\* stops[k] begins, at 19:00 or before; driving follows stops[k], and none of
\* it begins less than 10 hours after stops[k].
RestAdjacent(k) ==
  /\ k > 1
  /\ DateOf(stops[k - 1].estimatedArrival) = DateOf(stops[k].estimatedArrival)
  /\ stops[k - 1].estimatedArrival <= stops[k].estimatedArrival
  /\ TimeOfDay(stops[k].estimatedArrival) <= SLEEPER_START_HOUR
  /\ \E j \in 1..Len(drives) : drives[j][1] >= stops[k].estimatedArrival
  /\ \A j \in 1..Len(drives) :
       drives[j][1] >= stops[k].estimatedArrival =>
         drives[j][1] >= stops[k].estimatedArrival + 10 * HOUR

\* C4 (rest adjacency, as it holds).  Every overnight stop of the returned
\* plan that is a 'Required 10-Hour Rest' follows a stop of the same calendar
\* day that has ended by 19:00, and the next driving begins 10 hours or more
\* after its arrival.
C4_RestAdjacency ==
  Returned =>
    \A k \in 1..Len(stops) :
      stops[k].type = "overnight" /\ stops[k].name = "Required 10-Hour Rest" =>
        RestAdjacent(k)

\* C4 as the specification states it: of every stop of type overnight.
C4_RestAdjacency_AsStated ==
  Returned => \A k \in 1..Len(stops) : stops[k].type = "overnight" => RestAdjacent(k)

\* A returned plan with two nights on the road.
C4_Witness ==
  /\ Returned
  /\ \E j, k \in 1..Len(stops) :
       /\ j < k
       /\ stops[j].name = "Required 10-Hour Rest"
       /\ stops[k].name = "Required 10-Hour Rest"

AtInstant(list, t) == SelectSeq(list, LAMBDA st : st.estimatedArrival = t)

\* C5 (timestamp monotonicity).  The returned list is in non-decreasing order
\* of estimatedArrival, and the stops of one instant are the stops the
\* planner emitted for that instant, in the order of their emission.
C5_SortedStable ==
  Returned =>
    /\ \A k \in 1..(Len(stops) - 1) :
         stops[k].estimatedArrival <= stops[k + 1].estimatedArrival
    /\ Len(stops) = Len(emitted)
    /\ \A k \in 1..Len(emitted) :
         AtInstant(stops, emitted[k].estimatedArrival)
           = AtInstant(emitted, emitted[k].estimatedArrival)

\* A returned plan whose start stop and early-morning off-duty stop share
\* their instant.
C5_Witness ==
  /\ Returned
  /\ \E k \in 1..(Len(stops) - 1) :
       /\ stops[k].type = "start"
       /\ stops[k + 1].type = "off-duty"
       /\ stops[k].estimatedArrival = stops[k + 1].estimatedArrival

\* ------------------------------------------------------------------------
\* Properties of the log sheets

Sheets == 1..Len(daily_logs)
HourData(n) == daily_logs[n].graphData.hourData

\* C6 (hour coverage).  On every sheet hourData is strictly increasing in
\* hour, every hour lies in [0, 24), and the first entry is at hour 0.
C6_HourCoverage ==
  \A n \in Sheets :
    /\ HourData(n) # << >>
    /\ HourData(n)[1].hour = 0
    /\ \A k \in 1..Len(HourData(n)) : 0 <= HourData(n)[k].hour /\ HourData(n)[k].hour < DAY
    /\ \A k \in 1..(Len(HourData(n)) - 1) : HourData(n)[k].hour < HourData(n)[k + 1].hour

\* Sheets of a trip of several days, on one of which two stops of the day
\* arrive in the same minute, so that the second write met the first.
C6_Witness ==
  /\ pc = "done"
  /\ Len(daily_logs) >= 2
  /\ \E j, k \in 1..Len(stops) :
       /\ j < k
       /\ DateOf(stops[j].estimatedArrival) = DateOf(stops[k].estimatedArrival)
       /\ HourOf(stops[j].estimatedArrival) = HourOf(stops[k].estimatedArrival)

InDrivingWindow(t) ==
  DRIVING_START_HOUR <= TimeOfDay(t) /\ TimeOfDay(t) <= DRIVING_END_HOUR

\* C7 (driving window).  On every sheet made from the planner's stops, every
\* log entry whose status is driving starts and ends at an hour of the day
\* within [7.0, 17.5].
C7_DrivingWindow ==
  \A n \in Sheets :
    \A k \in 1..Len(daily_logs[n].logs) :
      daily_logs[n].logs[k].status = "driving" =>
        /\ InDrivingWindow(daily_logs[n].logs[k].startTime)
        /\ InDrivingWindow(daily_logs[n].logs[k].endTime)

ViolationTypes(n) ==
  { daily_logs[n].violations[k].type : k \in 1..Len(daily_logs[n].violations) }

\* C8 (violation flagging).  On every sheet a driving-limit violation is
\* present if and only if the day's driving hours are greater than 11, an
\* on-duty-limit violation if and only if the day's on-duty hours are greater
\* than 14, and there is no violation of another type.
C8_ViolationFlagging ==
  \A n \in Sheets :
    /\ "driving-limit" \in ViolationTypes(n) <=> daily_logs[n].drivingHours > 11 * HOUR
    /\ "on-duty-limit" \in ViolationTypes(n) <=> daily_logs[n].totalHours > 14 * HOUR
    /\ ViolationTypes(n) \subseteq { "driving-limit", "on-duty-limit" }

\* Two sheets, one flagged for driving alone, at exactly 14 hours on duty,
\* the other for both limits.
C8_Witness ==
  /\ pc = "done"
  /\ \E n \in Sheets :
       ViolationTypes(n) = { "driving-limit" } /\ daily_logs[n].totalHours = 14 * HOUR
  /\ \E n \in Sheets : ViolationTypes(n) = { "driving-limit", "on-duty-limit" }

\* C9 (per-sheet odometer).  On every sheet endOdometer less startOdometer
\* is totalMiles.
C9_SheetOdometer ==
  \A n \in Sheets :
    daily_logs[n].endOdometer - daily_logs[n].startOdometer = daily_logs[n].totalMiles

\* C10 (odometer roll-over).  The first sheet starts at the starting
\* odometer, every later sheet starts where the sheet before it ended, and
\* no sheet ends below its start.
C10_OdometerRollOver ==
  \A n \in Sheets :
    /\ n = 1 => daily_logs[n].startOdometer = starting_odometer
    /\ n > 1 => daily_logs[n].startOdometer = daily_logs[n - 1].endOdometer
    /\ daily_logs[n].endOdometer >= daily_logs[n].startOdometer

\* Three sheets, the first two of which moved the odometer.
C10_Witness ==
  /\ pc = "done"
  /\ Len(daily_logs) >= 3
  /\ daily_logs[1].endOdometer > daily_logs[1].startOdometer
  /\ daily_logs[2].endOdometer > daily_logs[2].startOdometer

\* ------------------------------------------------------------------------
\* C11  Determinism: the second run of a request, with the same route,
\* locations, start time and cycle hours, the generator seeded as in the first
\* run and the geocoder and its cache giving the same names, returns the stop
\* list and the log sheets the first run returned.
SecondRunDone == run = 2 /\ pc = "done"
SameStops == SecondRunDone => stops = first_run.stops
C11_Determinism ==
  SecondRunDone => (stops = first_run.stops /\ daily_logs = first_run.daily_logs)

\* ------------------------------------------------------------------------
\* C12  Late start (S6): a plan that starts at 18:00 (with no cycle hours
\* used, the default) begins its first driving at 07:00 of the next calendar
\* day, and it holds an overnight stop at the origin coordinates that lies
\* between the start stop and that first driving.
LateStart == start_time = 18 * HOUR /\ current_cycle_used = 0 /\ drives # << >>
FirstDrivingNextMorning == drives[1][1] = DAY + DRIVING_START_HOUR
OvernightAtOrigin ==
  \E k \in 1..Len(stops) :
    /\ stops[k].type = "overnight"
    /\ stops[k].coordinates = LocationCoordinates(0)
    /\ stops[k].estimatedArrival >= start_time
    /\ stops[k].estimatedArrival <= drives[1][1]
C12_LateStart ==
  (Returned /\ LateStart) => (FirstDrivingNextMorning /\ OvernightAtOrigin)

\* ------------------------------------------------------------------------
\* C13  Two-day trip (S2): the trip of three locations and 270 miles, started
\* at 06:00 with no cycle hours used, is planned and assembled into exactly
\* two daily log sheets.
TwoDayTrip ==
  /\ total_distance = 270 * MILE
  /\ num_locations = 3
  /\ start_time = 6 * HOUR
  /\ current_cycle_used = 0
C13_TwoSheets_AsStated == (pc = "done" /\ TwoDayTrip) => Len(daily_logs) = 2

\* As the code has it: the 4.5 hours of driving and the two half-hour stops
\* end at 12:30 of the day of the start, and the assembler returns exactly one
\* sheet, which carries the 270 miles.
C13_OneSheet ==
  (pc = "done" /\ TwoDayTrip) =>
    /\ Len(daily_logs) = 1
    /\ daily_logs[1].date = 0
    /\ daily_logs[1].totalMiles = 270
    /\ \A k \in 1..Len(stops) : DateOf(stops[k].estimatedArrival) = 0
C13_Witness ==
  /\ pc = "done"
  /\ TwoDayTrip
  /\ Len(daily_logs) = 1
  /\ stops[Len(stops)].type = "dropoff"
  /\ stops[Len(stops)].estimatedArrival = 12 * HOUR

\* ------------------------------------------------------------------------
\* C14  Long trip fuel count (S3): the plan of the trip of three locations and
\* about 2,800 miles, started at 06:00 with no cycle hours used, holds at
\* least five fuel stops.
LongTrip ==
  /\ total_distance = 2799 * MILE
  /\ num_locations = 3
  /\ start_time = 6 * HOUR
  /\ current_cycle_used = 0
StopsOfType(type) == { k \in 1..Len(stops) : stops[k].type = type }
C14_LongTripFuelCount == (Returned /\ LongTrip) => Cardinality(StopsOfType("fuel")) >= 5

\* ------------------------------------------------------------------------
\* C15  Long trip rest per day (S3): in the plan of the trip of three locations
\* and about 2,800 miles, started at 06:00 with no cycle hours used, every
\* calendar day on which driving takes place, the last one included, holds at
\* least one stop of type rest.
DrivingDays ==
  { DateOf(drives[k][1]) : k \in 1..Len(drives) }
  \cup { DateOf(drives[k][2]) : k \in 1..Len(drives) }
RestOn(d) == \E k \in StopsOfType("rest") : DateOf(stops[k].estimatedArrival) = d
FirstRest == CHOOSE k \in StopsOfType("rest") : \A j \in StopsOfType("rest") : k <= j
RECURSIVE DrivenUntil(_, _)
DrivenUntil(t, n) ==
  IF n = 0 THEN 0
  ELSE DrivenUntil(t, n - 1) + (IF drives[n][2] <= t THEN drives[n][3] ELSE 0)
NeedsMoreThan(hours) == MilesToHours(total_distance) > hours
RestAfterPreload ==
  (start_time = 6 * HOUR /\ current_cycle_used < BREAK_TRIGGER
     /\ NeedsMoreThan(BREAK_TRIGGER - current_cycle_used)) =>
    /\ StopsOfType("rest") # { }
    /\ DrivenUntil(stops[FirstRest].estimatedArrival, Len(drives))
         = BREAK_TRIGGER - current_cycle_used
RestBeforeDriving ==
  (start_time = 6 * HOUR /\ current_cycle_used >= BREAK_TRIGGER /\ drives # << >>) =>
    /\ StopsOfType("rest") # { }
    /\ stops[FirstRest].estimatedArrival <= drives[1][1]
    /\ DrivenUntil(stops[FirstRest].estimatedArrival, Len(drives)) = 0
C16_CyclePreload == Returned => (RestAfterPreload /\ RestBeforeDriving)
\* A driver with 3 h 07 min used reaches the pickup after 4 h 10 min 30 s of
\* driving and rests 42 min 30 s of driving later, on the second leg.
C16_Witness ==
  /\ Returned
  /\ start_time = 6 * HOUR
  /\ current_cycle_used = 3 * HOUR + 7 * MINUTE
  /\ StopsOfType("rest") # { }
  /\ \E k \in StopsOfType("pickup") : k < FirstRest
  /\ DrivenUntil(stops[FirstRest].estimatedArrival, Len(drives)) = 4 * HOUR + 53 * MINUTE

\* ------------------------------------------------------------------------
\* C17  Short intra-day trip (S1): the plan of the trip of three locations and
\* about 10 miles, started at 06:00 with no cycle hours used, is exactly
\* start (06:00), early-morning off-duty (06:00), pretrip (06:30), pickup (about
\* 07:05), dropoff (about 07:10), all on the date of the start.
ShortTrip ==
  /\ total_distance = 9 * MILE
  /\ num_locations = 3
  /\ start_time = 6 * HOUR
  /\ current_cycle_used = 0
About(t, target) == Abs(t - target) <= 2 * MINUTE
ShortTripPlan(dropoff_arrival) ==
  /\ [ k \in 1..Len(stops) |-> stops[k].type ]
       = << "start", "off-duty", "pretrip", "pickup", "dropoff" >>
  /\ stops[1].estimatedArrival = 6 * HOUR
  /\ stops[2].estimatedArrival = 6 * HOUR
  /\ stops[2].name = "Early Morning Rest (Off-Duty)"
  /\ stops[3].estimatedArrival = 6 * HOUR + 30 * MINUTE
  /\ About(stops[4].estimatedArrival, 7 * HOUR + 5 * MINUTE)
  /\ About(stops[5].estimatedArrival, dropoff_arrival)
C17_ShortTrip_AsStated ==
  (Returned /\ ShortTrip) => ShortTripPlan(7 * HOUR + 10 * MINUTE)

\* As the code has it: the half hour of the pickup stop precedes the drive to
\* the dropoff, which is reached at about 07:40.
C17_ShortTrip == (Returned /\ ShortTrip) => ShortTripPlan(7 * HOUR + 40 * MINUTE)
C17_Witness ==
  /\ Returned
  /\ ShortTrip
  /\ Len(stops) = 5
  /\ stops[4].estimatedArrival = 7 * HOUR + 4 * MINUTE + MINUTE \div 2
  /\ stops[5].estimatedArrival = 7 * HOUR + 39 * MINUTE

\* ------------------------------------------------------------------------
\* C18  Degenerate trip (S5): with three identical locations and a route of no
\* length, generate_stops raises no error, for the body of the drive loop with
\* its divisions by the route's length never runs, and it returns exactly
\* start, early-morning off-duty, pretrip, pickup, dropoff on the day of the
\* start; the single sheet made of them has no violations.
Degenerate == total_distance = 0 /\ num_locations = 3 /\ start_time = 6 * HOUR
LastStopOfSheet(n) ==
  LET day_stops == StopsOfDay(stops, NthDay(stops, n - 1))
  IN  day_stops[Len(day_stops)]
FinalSheet(n) == n = Cardinality(DaySet(stops))
EarlyCompletion(n) ==
  /\ FinalSheet(n)
  /\ LastStopOfSheet(n).type = "dropoff"
  /\ HourOf(LastStopOfSheet(n).estimatedArrival) < DRIVING_END_HOUR
HasEntryAt(n, hour) == \E k \in 1..Len(HourData(n)) : HourData(n)[k].hour = hour
HasEntryNear(n, hour) ==
  \E k \in 1..Len(HourData(n)) : Abs(HourData(n)[k].hour - hour) < COVERAGE_TOLERANCE
C19_EarlyCompletion ==
  \A n \in Sheets :
    IF EarlyCompletion(n)
      THEN /\ ~HasEntryAt(n, DRIVING_END_HOUR)
           /\ ~HasEntryAt(n, SLEEPER_START_HOUR)
           /\ ~HasEntryAt(n, MIDNIGHT_HOUR)
      ELSE /\ HasEntryNear(n, DRIVING_END_HOUR)
           /\ HasEntryNear(n, SLEEPER_START_HOUR)
           /\ ~FinalSheet(n) => HasEntryAt(n, MIDNIGHT_HOUR)
\* The sheets of a trip of several days that ends with a dropoff before 17:30:
\* the first sheet has the pattern, the last is an early completion.
C19_Witness ==
  /\ pc = "done"
  /\ Len(daily_logs) >= 2
  /\ ~EarlyCompletion(1)
  /\ HasEntryAt(1, MIDNIGHT_HOUR)
  /\ EarlyCompletion(Len(daily_logs))
  /\ ~HasEntryNear(Len(daily_logs), DRIVING_END_HOUR)

\* ------------------------------------------------------------------------
\* C20  Stop-to-status mapping: on every sheet, for every stop of its day, the
\* hourData entry at the stop's hour of the day carries the status mapped from
\* the stop's type (overnight to sleeper-berth; off-duty, rest, start to
\* off-duty; pretrip, pickup, dropoff, waypoint, fuel to on-duty), or, where
\* later stops of the day have the same hour, the status mapped from the last
\* of them.
StopsOfSheet(n) == StopsOfDay(stops, NthDay(stops, n - 1))
LastStopAtHour(n, hour) ==
  LET day_stops == StopsOfSheet(n)
      last == CHOOSE j \in 1..Len(day_stops) :
                /\ HourOf(day_stops[j].estimatedArrival) = hour
                /\ \A k \in (j + 1)..Len(day_stops) :
                     HourOf(day_stops[k].estimatedArrival) # hour
  IN  day_stops[last]
StatusAt(n, hour) ==
  { HourData(n)[k].status : k \in { j \in 1..Len(HourData(n)) : HourData(n)[j].hour = hour } }
StopHours(n) ==
  { HourOf(StopsOfSheet(n)[j].estimatedArrival) : j \in 1..Len(StopsOfSheet(n)) }
MorningPatternHours(n) ==
  LET first_stop_hour == HourOf(StopsOfSheet(n)[1].estimatedArrival)
  IN  IF n = 1 /\ first_stop_hour > PRE_TRIP_START_HOUR
        THEN { first_stop_hour, Min(first_stop_hour + HOUR \div 2, LATEST_DRIVING_START) }
        ELSE { PRE_TRIP_START_HOUR, DRIVING_START_HOUR }
GapDrivingHours(n) ==
  { HourOf(StopsOfSheet(n)[j].estimatedArrival + 30 * MINUTE) : j \in 1..Len(StopsOfSheet(n)) }

Logs(n) == daily_logs[n].logs
HourAndMinute(hour) == (hour \div MINUTE) * MINUTE
StartsAtItsStatus(n, k) ==
  /\ DateOf(Logs(n)[k].startTime) = daily_logs[n].date
  /\ TimeOfDay(Logs(n)[k].startTime) = HourAndMinute(HourData(n)[k].hour)
EndsAtTheNext(n, k) ==
  Logs(n)[k].endTime = IF k < Len(Logs(n)) THEN Logs(n)[k + 1].startTime
                                           ELSE daily_logs[n].endTime
Chronological(n, k) == Logs(n)[k].startTime <= Logs(n)[k].endTime
C21_LogEntryTimes ==
  \A n \in Sheets :
    /\ Len(Logs(n)) = Len(HourData(n))
    /\ \A k \in 1..Len(Logs(n)) :
         StartsAtItsStatus(n, k) /\ EndsAtTheNext(n, k) /\ Chronological(n, k)

\* ------------------------------------------------------------------------
\* C22  Later-day morning pattern: on every sheet after the first, hourData
\* starts with sleeper-berth at hour 0.0 and holds an on-duty entry at 6.5 and
\* a driving entry at 7.0, whatever stops fall on that day; on the first sheet
\* the entry at hour 0.0 is off-duty.
HasStatusAt(n, hour, status) ==
  \E k \in 1..Len(HourData(n)) :
    HourData(n)[k].hour = hour /\ HourData(n)[k].status = status
LaterDayPattern(n) ==
  /\ HourData(n)[1] = [ hour |-> 0, status |-> "sleeper-berth" ]
  /\ HasStatusAt(n, PRE_TRIP_START_HOUR, "on-duty")
  /\ HasStatusAt(n, DRIVING_START_HOUR, "driving")
FirstDayMidnight == HourData(1)[1] = [ hour |-> 0, status |-> "off-duty" ]
C22_LaterDayMorningPattern ==
  \A n \in Sheets : IF n = 1 THEN FirstDayMidnight ELSE LaterDayPattern(n)

\* ------------------------------------------------------------------------
\* C23  Input validation: the view answers 400 with an error body if and only
\* if at least one of the six latitude and longitude values of the three
\* locations is missing or null; every request whose six values are numbers,
\* the value 0 included, is accepted and planned.
SomeCoordinateNull ==
  \E k \in 1..3 : locations[k].lat = JsonNull \/ locations[k].lng = JsonNull
Answered == response # << >>
C23_InputValidation ==
  Answered =>
    /\ response.status = HTTP_400_BAD_REQUEST <=> SomeCoordinateNull
    /\ response.status = HTTP_400_BAD_REQUEST => response.data = "error"
    /\ ~SomeCoordinateNull => response.status = HTTP_200_OK

\* ------------------------------------------------------------------------
\* C24  Routing fallback: whatever the routing service does (transport error,
\* timeout, malformed body, a code other than Ok, no routes), fetch_route
\* raises nothing and returns a response with code Ok and exactly one route;
\* a synthesized route has 50 coordinates, the first and the last of which are
\* exactly the origin and the destination, and a distance of at least
\* 0.1 km x 1.3 (130 m).
RouteReturned == route_response # << >>
Synthesized == RouteReturned /\ osrm_outcome \in Failures
MockRoute == route_response.routes[1]
MockShape ==
  /\ route_response.code = "Ok"
  /\ Len(route_response.routes) = 1
  /\ Len(MockRoute.coordinates) = 50
  /\ MockRoute.distance >= 130
FirstPointExact == MockRoute.coordinates[1] = << route_origin.lng, route_origin.lat >>
LastPointExact ==
  MockRoute.coordinates[Len(MockRoute.coordinates)] = << route_destination.lng, route_destination.lat >>
C24_RoutingFallback ==
  /\ RouteReturned => route_response.code = "Ok"
  /\ Synthesized => (MockShape /\ FirstPointExact /\ LastPointExact)

\* ------------------------------------------------------------------------
\* C25  Geocoder rate limit: across all callers of get_location_name, request
\* handlers running at the same time included, no two requests to the
\* external geocoder are issued less than 1 second apart; a cache hit issues
\* no request.
RequestsOneSecondApart ==
  \A k \in 1..(Len(request_times) - 1) : request_times[k + 1] - request_times[k] >= SECOND
HitsIssueNoRequest ==
  \A c \in DOMAIN callers : callers[c].read = "hit" => ~callers[c].requested
C25_GeocoderRateLimit == RequestsOneSecondApart /\ HitsIssueNoRequest

\* ------------------------------------------------------------------------
\* C26  Best-effort cache: in get_location_name a failed cache read (a file
\* that is missing, unreadable, corrupt or half-written by another caller)
\* falls through to the network lookup, a failed cache write still returns
\* the looked-up name, and neither propagates an exception; a readable cache
\* entry is returned without any network request.
Finished(c) == callers[c].pc \in { "sleeping", "returned" }
C26_BestEffortCache ==
  \A c \in DOMAIN callers :
    /\ ~callers[c].raised
    /\ callers[c].read \in { "missing", "failed" } =>
         callers[c].pc \in { "request", "waiting", "writing", "sleeping", "returned" }
    /\ Finished(c) =>
         /\ callers[c].read \in { "missing", "failed" } => callers[c].requested
         /\ callers[c].write = "failed" => callers[c].name = "looked up"
         /\ callers[c].read = "hit" => (~callers[c].requested /\ callers[c].name = "cached")
C26_Witness ==
  \E c \in DOMAIN callers :
    /\ callers[c].pc = "returned" /\ callers[c].read = "failed"
    /\ callers[c].write = "failed" /\ callers[c].name = "looked up"

\* ------------------------------------------------------------------------
\* C27  End-of-day sequence: whenever the drive loop reaches the end of the
\* driving day with driving still remaining, the planner emits, in this order,
\* an off-duty stop "End of Driving Day" lasting until 19:00, an overnight stop
\* "Required 10-Hour Rest" arriving at 19:00 for 10 hours, and an overnight
\* stop "Early Morning Rest (Sleeper Berth)" from 05:00 to 06:30, all at the
\* same interpolated position; driving then resumes at 07:00 of the next
\* calendar day with hoursSinceBreak = 0 and daysOnRoad incremented by one.
\* The step is one iteration of the loop: one that begins at the end of the
\* driving day, or one that emits an overnight or off-duty stop or counts a day.
DayIsOver ==
  /\ pc = "drive"
  /\ remaining_drive > 0
  /\ calculate_hours_until_end_of_driving_day(current_timestamp) <= 0
EndsTheDay ==
  /\ pc = "drive"
  /\ \/ days_on_road' # days_on_road
     \/ \E k \in (Len(stops) + 1)..Len(stops') : stops'[k].type \in { "off-duty", "overnight" }
EndOfDaySequence ==
  LET n == Len(stops')
      off == stops'[n - 2]
      rest == stops'[n - 1]
      early == stops'[n]
      day == DateOf(off.estimatedArrival)
  IN  /\ n = Len(stops) + 3
      /\ SubSeq(stops', 1, Len(stops)) = stops
      /\ off.type = "off-duty" /\ off.name = "End of Driving Day"
      /\ HourOf(off.estimatedArrival) >= DRIVING_END_HOUR
      /\ HourOf(off.estimatedArrival) < SLEEPER_START_HOUR
      /\ off.duration = format_duration(SLEEPER_START_HOUR - HourOf(off.estimatedArrival))
      /\ rest.type = "overnight" /\ rest.name = "Required 10-Hour Rest"
      /\ rest.estimatedArrival = day * DAY + 19 * HOUR
      /\ rest.duration = << 10, "hours" >>
      /\ early.type = "overnight" /\ early.name = "Early Morning Rest (Sleeper Berth)"
      /\ early.estimatedArrival = (day + 1) * DAY + 5 * HOUR
      /\ early.duration = format_duration((3 * HOUR) \div 2)
      /\ rest.coordinates = off.coordinates /\ early.coordinates = off.coordinates
      /\ current_timestamp' = (day + 1) * DAY + 7 * HOUR
      /\ hours_of_driving_since_last_break' = 0
      /\ days_on_road' = days_on_road + 1
C27_EndOfDaySequence == [][(DayIsOver \/ EndsTheDay) => EndOfDaySequence]_vars
C27_Witness ==
  /\ pc = "drive"
  /\ Len(stops) >= 3
  /\ stops[Len(stops)].name = "Early Morning Rest (Sleeper Berth)"
  /\ stops[Len(stops) - 2].name = "End of Driving Day"
  /\ HourOf(stops[Len(stops) - 2].estimatedArrival) > DRIVING_END_HOUR
  /\ current_timestamp = DateOf(stops[Len(stops)].estimatedArrival) * DAY + 7 * HOUR
  /\ days_on_road = 2

\* ------------------------------------------------------------------------
\* C28  Break after fuel: after a fuel stop, if hoursSinceBreak (the hours
\* driven to the fuel stop included) is at least 7, a rest stop is emitted at
\* the coordinates of the fuel stop, no earlier than the end of the 0.5 h of
\* fueling, and hoursSinceBreak is reset to 0; if it is below 7 no rest is
\* emitted and hoursSinceBreak keeps its value (fueling never resets it).
EmitsFuel ==
  /\ pc = "drive"
  /\ Len(stops') > Len(stops)
  /\ stops'[Len(stops) + 1].type = "fuel"
HoursAtFuel == hours_of_driving_since_last_break + drives'[Len(drives')][3]
BreakAfterFuel ==
  LET fuel == stops'[Len(stops) + 1]
  IN  /\ Len(drives') = Len(drives) + 1
      /\ drives'[Len(drives')][2] = fuel.estimatedArrival
      /\ IF HoursAtFuel >= 7 * HOUR
           THEN /\ Len(stops') = Len(stops) + 2
                /\ stops'[Len(stops) + 2].type = "rest"
                /\ stops'[Len(stops) + 2].coordinates = fuel.coordinates
                /\ stops'[Len(stops) + 2].estimatedArrival >= fuel.estimatedArrival + HOUR \div 2
                /\ hours_of_driving_since_last_break' = 0
           ELSE /\ Len(stops') = Len(stops) + 1
                /\ hours_of_driving_since_last_break' = HoursAtFuel
C28_BreakAfterFuel == [][EmitsFuel => BreakAfterFuel]_vars
C28_Witness ==
  /\ pc = "drive"
  /\ Len(stops) >= 2
  /\ stops[Len(stops) - 1].type = "fuel"
  /\ stops[Len(stops)].type = "rest"
  /\ stops[Len(stops)].coordinates = stops[Len(stops) - 1].coordinates
  /\ hours_of_driving_since_last_break = 0
  /\ drives[Len(drives)][2] = stops[Len(stops) - 1].estimatedArrival
  /\ drives[Len(drives)][4] + drives[Len(drives)][3] >= 7 * HOUR

\* ------------------------------------------------------------------------
\* The hour of the day of a timestamp, seconds included.
HourOfDay(t) == t % DAY

\* C29  Driving-window clamp: for every timestamp t,
\* next_driving_start_time(t) is not earlier than t, has an hour of the day in
\* [7.0, 17.5), equals t when the hour of the day of t is already in
\* [7.0, 17.5), and is idempotent.
WithinTheWindow(t) == HourOfDay(t) >= 7 * HOUR /\ HourOfDay(t) < (35 * HOUR) \div 2
ClampedOnce == clamp_call # << >> /\ clamp_call.returned = "next_driving_start_time"
C29_DrivingWindowClamp ==
  ClampedOnce =>
    /\ clamp_call.start >= clamp_call.timestamp
    /\ WithinTheWindow(clamp_call.start)
    /\ WithinTheWindow(clamp_call.timestamp) => clamp_call.start = clamp_call.timestamp
    /\ clamp_call.again = clamp_call.start
C29_Witness ==
  /\ ClampedOnce
  /\ clamp_call.timestamp = 17 * HOUR + 29 * MINUTE + MINUTE \div 2
  /\ clamp_call.start = clamp_call.timestamp

\* ------------------------------------------------------------------------
\* C30  Multi-day drive clamp: for every timestamp t and every h > 0,
\* calculate_time_restricted_arrival(t, h) returns an arrival the hour of the
\* day of which lies in (7.0, 17.5], such that the time that lies inside the
\* daily windows [07:00, 17:30] between next_driving_start_time(t) and the
\* arrival is exactly h hours; for h <= 0 it returns t unchanged.
RECURSIVE TimeInWindows(_, _)
TimeInWindows(from, to) ==
  IF to <= from THEN 0
  ELSE LET day == DateOf(from)
           first == Max(from, day * DAY + 7 * HOUR)
           last == Min(to, day * DAY + (35 * HOUR) \div 2)
       IN  Max(0, last - first) + TimeInWindows((day + 1) * DAY, to)
ArrivalComputed ==
  clamp_call # << >> /\ clamp_call.returned = "calculate_time_restricted_arrival"
ArrivalInWindow ==
  HourOfDay(clamp_call.arrival) > 7 * HOUR /\ HourOfDay(clamp_call.arrival) <= (35 * HOUR) \div 2
ExactlyTheHours ==
  TimeInWindows(clamp_call.start, clamp_call.arrival) = clamp_call.driving_hours
C30_MultiDayDriveClamp ==
  ArrivalComputed =>
    IF clamp_call.driving_hours > 0
      THEN ArrivalInWindow /\ ExactlyTheHours
      ELSE clamp_call.arrival = clamp_call.timestamp

\* ------------------------------------------------------------------------
\* C31  End-of-day log pattern: every sheet that is not an early-completion
\* final day has an hourData entry at 17.5 and an entry at 19.0, and every
\* sheet that is not the final day has sleeper-berth at 23.99 as its last
\* hourData entry, so that the status at the end of day N equals the status
\* at hour 0.0 of day N+1.
LastEntry(n) == HourData(n)[Len(HourData(n))]
BridgesMidnight(n) ==
  /\ LastEntry(n) = [ hour |-> MIDNIGHT_HOUR, status |-> "sleeper-berth" ]
  /\ (n + 1) \in Sheets =>
       /\ HourData(n + 1)[1].hour = 0
       /\ HourData(n + 1)[1].status = LastEntry(n).status
InjectedWhereNoStop(n) ==
  /\ DRIVING_END_HOUR \notin StopHours(n) => StatusAt(n, DRIVING_END_HOUR) = { "off-duty" }
  /\ SLEEPER_START_HOUR \notin StopHours(n) =>
       StatusAt(n, SLEEPER_START_HOUR) = { "sleeper-berth" }
EarlierHours(n) == StopHours(n) \cup MorningPatternHours(n) \cup GapDrivingHours(n)
InjectedWhereNoEntry(n) ==
  /\ DRIVING_END_HOUR \notin EarlierHours(n) => StatusAt(n, DRIVING_END_HOUR) = { "off-duty" }
  /\ SLEEPER_START_HOUR \notin EarlierHours(n) =>
       StatusAt(n, SLEEPER_START_HOUR) = { "sleeper-berth" }
Iteration == pc = "drive" /\ remaining_drive > 0
Decreases == remaining_drive' < remaining_drive
Pauses ==
  /\ remaining_drive' = remaining_drive
  /\ Len(stops') > Len(stops)
  /\ \A k \in (Len(stops) + 1)..Len(stops') :
       stops'[k].type \in { "rest", "off-duty", "overnight" }
DrivesNext == LoopBody(LoopState').remaining_drive < remaining_drive'
DrivesAfterNext ==
  LET s == LoopBody(LoopState')
  IN  s.remaining_drive > 0 /\ LoopBody(s).remaining_drive < s.remaining_drive
C32_PlannerTermination_AsStated ==
  /\ <>Returned
  /\ [][Iteration => (Decreases \/ (Pauses /\ DrivesNext))]_vars

\* C32 as the code has it: a rest that ends at 17:30 or later is followed by
\* the overnight step, and that by a strictly decreasing step; two steps that
\* do not drive are the most in a row.
C32_PlannerTermination ==
  /\ <>Returned
  /\ [][Iteration => (Decreases \/ (Pauses /\ (DrivesNext \/ DrivesAfterNext)))]_vars
\* The plan has been returned, of a trip on which a rest was followed by the
\* end of the driving day, and that by driving on the next morning.
C32_Witness ==
  /\ Returned
  /\ \E k \in 1..(Len(emitted) - 1) :
       /\ emitted[k].type = "rest"
       /\ emitted[k + 1].name = "End of Driving Day"
       /\ \E j \in 1..Len(drives) : drives[j][1] > emitted[k + 1].estimatedArrival

\* C33  Mileage conservation: in every plan over n locations, the position
\* reached when the terminal stop of leg i is emitted equals
\* totalMi * i / (n - 1), and so do the hours driven until then at
\* AVG_SPEED_MPH; the position never exceeds totalMi and never decreases, and
\* the driving hours consumed over the whole plan sum to totalMi / 60.
RECURSIVE HoursDriven(_)
HoursDriven(n) == IF n = 0 THEN 0 ELSE HoursDriven(n - 1) + drives[n][3]
TargetMileage(leg) == (total_distance * leg) \div (num_locations - 1)
TerminalStopEmitted == pc = "drive" /\ pc' = "leg"
LegEndsAtTarget ==
  TerminalStopEmitted =>
    /\ current_position' = TargetMileage(i)
    /\ HoursToMiles(HoursDriven(Len(drives))) = TargetMileage(i)
PositionInRange ==
  /\ current_position' >= current_position
  /\ current_position' <= total_distance
C33_MileageConservation ==
  /\ [][LegEndsAtTarget /\ PositionInRange]_vars
  /\ [](Returned => HoursDriven(Len(drives)) = MilesToHours(total_distance))
\* A plan over three locations has been returned, whose first leg ended at
\* half the distance after a fuel stop or a break on the way.
C33_Witness ==
  /\ Returned
  /\ num_locations = 3
  /\ total_distance > 0
  /\ Len(drives) > 2
  /\ \E k \in 2..(Len(emitted) - 1) :
       /\ emitted[k].type = "pickup"
       /\ \E j \in 1..(k - 1) : emitted[j].type \in { "fuel", "rest" }

\* C34  Planner compliance seen by the assembler: for every stop list produced
\* by generate_stops (any start time, any distance, any cycleUsed), every
\* sheet produced by generate_eld_logs has an empty list of violations.
C34_PlannerCompliance ==
  \A n \in Sheets : daily_logs[n].violations = << >>
\* The sheets of a trip of two days or more are complete, and on one of them
\* the assembler counted more than 8 hours of driving.
C34_Witness ==
  /\ pc = "done"
  /\ Len(daily_logs) >= 2
  /\ \E n \in Sheets : daily_logs[n].drivingHours > 8 * HOUR

\* C35  Mileage agreement inside a sheet: on every sheet the miles of the log
\* entries, which are other than 0 for driving entries only, add up to the
\* sheet's totalMiles.
RECURSIVE MilesOfEntries(_, _)
MilesOfEntries(n, k) ==
  IF k = 0 THEN 0 ELSE MilesOfEntries(n, k - 1) + daily_logs[n].logs[k].miles
C35_SheetMileageAgreement ==
  \A n \in Sheets :
    /\ MilesOfEntries(n, Len(daily_logs[n].logs)) = daily_logs[n].totalMiles
    /\ \A k \in 1..Len(daily_logs[n].logs) :
         daily_logs[n].logs[k].status # "driving" => daily_logs[n].logs[k].miles = 0

\* C36  Non-negative log entries: every log entry on every sheet ends no
\* earlier than it starts, the first entry (hour 0.0) and the last entry
\* (which ends at the sheet's endTime) included, and the miles of every log
\* entry are 0 or more.
EndsNoEarlierThanItStarts(n, k) ==
  daily_logs[n].logs[k].endTime >= daily_logs[n].logs[k].startTime
C36_NonNegativeLogEntries ==
  \A n \in Sheets :
    \A k \in 1..Len(daily_logs[n].logs) :
      /\ EndsNoEarlierThanItStarts(n, k)
      /\ daily_logs[n].logs[k].miles >= 0

\* C37  On-duty accounting: on every sheet the accumulated onDutyHours equal
\* the accumulated drivingHours (the durations of on-duty stops such as
\* pretrip, pickup, fuel and dropoff add nothing), so totalHours is the day's
\* driving hours and an on-duty-limit violation never appears without a
\* driving-limit violation.
C37_OnDutyAccounting ==
  \A n \in Sheets :
    /\ daily_logs[n].totalHours = daily_logs[n].drivingHours
    /\ "on-duty-limit" \in ViolationTypes(n) => "driving-limit" \in ViolationTypes(n)
\* The sheets are complete; one of them counts more than 14 hours of driving
\* between on-duty stops and carries both violations.
C37_Witness ==
  /\ pc = "done"
  /\ \E n \in Sheets :
       /\ daily_logs[n].drivingHours > MAX_ON_DUTY_HOURS
       /\ ViolationTypes(n) = { "driving-limit", "on-duty-limit" }
       /\ \E k \in 1..Len(stops) :
            /\ DateOf(stops[k].estimatedArrival) = daily_logs[n].date
            /\ stops[k].type \in { "pretrip", "pickup", "fuel" }

\* C38  Reproducible cache contents: after any sequence of lookups with any
\* mix of geocoder successes, failures and address-less answers, every name
\* stored in the cache was derived from a geocoder answer; a randomly chosen
\* fallback city is never written to the cache, so a lookup that hits the
\* cache entry, or that is given an answer by the geocoder, returns a name
\* that is not a random choice.
CacheHoldsNoRandomCity == cache_file # "random city"
AnswersGiveNoRandomCity ==
  \A c \in DOMAIN callers :
    Finished(c) /\ callers[c].name \in { "cached", "looked up" } => ~callers[c].random_city
C38_ReproducibleCache == CacheHoldsNoRandomCity /\ AnswersGiveNoRandomCity

\* C39  Forced-break branch: in the drive loop, whenever the drivable window
\* is computed it is strictly positive (remainingDrive > 0, the hours until
\* the end of the driving day > 0 and hoursSinceBreak < 8 all hold at that
\* point), so the branch of drivable <= 0 is never taken and no stop named
\* "30-Minute Break (Required)" appears in any plan.
HoursUntilEnd == calculate_hours_until_end_of_driving_day(current_timestamp)
HoursLeftBeforeBreak == Max(0, BREAK_TRIGGER - hours_of_driving_since_last_break)
DrivableHours == Min(Min(remaining_drive, HoursUntilEnd), HoursLeftBeforeBreak)
\* Line 415 is reached: the loop runs, and neither the end of the day (line
\* 329) nor the mandatory break (line 393) has taken the iteration.
WindowComputed ==
  /\ pc = "drive"
  /\ remaining_drive > 0
  /\ ~(HoursUntilEnd <= 0)
  /\ ~(hours_of_driving_since_last_break >= BREAK_TRIGGER)
NoRequiredBreak(list) ==
  \A k \in 1..Len(list) : list[k].name # "30-Minute Break (Required)"
C39_ForcedBreakBranch ==
  /\ WindowComputed =>
       /\ HoursUntilEnd > 0
       /\ hours_of_driving_since_last_break < BREAK_TRIGGER
       /\ DrivableHours > 0
  /\ NoRequiredBreak(stops)
  /\ NoRequiredBreak(emitted)
\* The window is computed with less than an hour left before the break is
\* due, and that is what bounds it.
C39_Witness ==
  /\ WindowComputed
  /\ DrivableHours = BREAK_TRIGGER - hours_of_driving_since_last_break
  /\ DrivableHours < HOUR
  /\ DrivableHours < remaining_drive
  /\ DrivableHours < HoursUntilEnd

====
